---- MODULE Spec2Model ----
(***************************************************************************)
(* A model of estafette-cloudflare-dns: the reconciler of main.go          *)
(* (processService / processIngress / deleteService / deleteIngress, the   *)
(* watch handlers and the sweep loop) on top of the Cloudflare client      *)
(* (GetZoneByDNSName, UpsertDNSRecord, UpdateProxySetting, DeleteDNSRecord,*)
(* DeleteDNSRecordIfMatching), stepped one REST call at a time.            *)
(*                                                                         *)
(* Strings.  A Go string that the code splits is kept in split form: a     *)
(* name (hostname, address, record content) is the sequence of its         *)
(* "."-separated labels, so "" is <<"">>; a comma-separated annotation is  *)
(* the sequence of its names, so "" is << <<"">> >> (strings.Split of the  *)
(* empty string yields one empty element).  Flags ("true", "false") are    *)
(* plain strings.                                                          *)
(***************************************************************************)
EXTENDS Naturals, Sequences, FiniteSets, TLC

\* ------------------------------------------------------------------ bounds

\* REST and object-update calls that may report failure in one behaviour.
MaxFaults == 1

\* Changes the orchestration system makes to an object in one behaviour.
MaxEdits == 1

\* Sweeps the poller starts in one behaviour.
MaxSweeps == 2

\* Watch events delivered in one behaviour.
MaxEvents == 3

\* ----------------------------------------------------------------- strings

EmptyString == <<"">>

EmptyList == <<EmptyString>>

Last(s) == s[Len(s)]

\* ------------------------------------------------------- annotation keys

annotationCloudflareDNS == "estafette.io/cloudflare-dns"
annotationCloudflareHostnames == "estafette.io/cloudflare-hostnames"
annotationCloudflareInternalHostnames == "estafette.io/cloudflare-internal-hostnames"
annotationCloudflareProxy == "estafette.io/cloudflare-proxy"
annotationCloudflareUseOriginRecord == "estafette.io/cloudflare-use-origin-record"
annotationCloudflareOriginRecordHostname == "estafette.io/cloudflare-origin-record-hostname"
annotationCloudflareState == "estafette.io/cloudflare-state"

\* ------------------------------------------------------------ state codec

\* The zero value of the Go struct CloudflareState.
CloudflareState ==
    [Enabled |-> "", Hostnames |-> EmptyList, InternalHostnames |-> EmptyList,
     Proxy |-> "", UseOriginRecord |-> "", OriginRecordHostname |-> EmptyString,
     IPAddress |-> EmptyString, InternalIPAddress |-> EmptyString]

\* A text that json.Unmarshal rejects.
Unparsable == [parses |-> FALSE, keys |-> {}, val |-> CloudflareState]

\* Fault seeding: the struct tag of InternalIPAddress keeps the field out of
\* the JSON text.
jsonMarshalWithoutInternalIP(s) ==
    [parses |-> TRUE,
     keys |-> {"enabled", "hostnames", "proxy", "useOriginRecord",
               "originRecordHostname", "ipAddress"}
              \cup (IF s.InternalHostnames # EmptyList THEN {"internalHostnames"} ELSE {}),
     val |-> s]

\* json.Marshal of a CloudflareState: a JSON object holding a key per field,
\* the two omitempty fields left out when empty.
jsonMarshal(s) ==
    [parses |-> TRUE,
     keys |-> {"enabled", "hostnames", "proxy", "useOriginRecord",
               "originRecordHostname", "ipAddress"}
              \cup (IF s.InternalHostnames # EmptyList THEN {"internalHostnames"} ELSE {})
              \cup (IF s.InternalIPAddress # EmptyString THEN {"internalIpAddress"} ELSE {}),
     val |-> s]

\* Fault seeding: a text without the omitempty keys is turned down.
jsonUnmarshalStrict(text) ==
    IF ~text.parses \/ ~({"internalHostnames", "internalIpAddress"} \subseteq text.keys)
    THEN [ok |-> FALSE, state |-> CloudflareState]
    ELSE [ok |-> TRUE, state |-> text.val]

\* json.Unmarshal into a zero CloudflareState: a field keeps its zero value
\* when the object holds no key for it; ok is FALSE when the text does not parse.
jsonUnmarshal(text) ==
    IF ~text.parses THEN [ok |-> FALSE, state |-> CloudflareState]
    ELSE [ok |-> TRUE,
          state |->
            [Enabled |-> IF "enabled" \in text.keys THEN text.val.Enabled ELSE "",
             Hostnames |-> IF "hostnames" \in text.keys THEN text.val.Hostnames ELSE EmptyList,
             InternalHostnames |-> IF "internalHostnames" \in text.keys
                                   THEN text.val.InternalHostnames ELSE EmptyList,
             Proxy |-> IF "proxy" \in text.keys THEN text.val.Proxy ELSE "",
             UseOriginRecord |-> IF "useOriginRecord" \in text.keys
                                 THEN text.val.UseOriginRecord ELSE "",
             OriginRecordHostname |-> IF "originRecordHostname" \in text.keys
                                      THEN text.val.OriginRecordHostname ELSE EmptyString,
             IPAddress |-> IF "ipAddress" \in text.keys THEN text.val.IPAddress ELSE EmptyString,
             InternalIPAddress |-> IF "internalIpAddress" \in text.keys
                                   THEN text.val.InternalIPAddress ELSE EmptyString]]

\* ----------------------------------------------------------------- objects

\* A service or ingress as the orchestration system stores it.  Annotations
\* is a Go map: keys is the set of keys present, the other fields their
\* values (the zero value when absent).  written is history: TRUE when the
\* last change of the stored object was this controller's update.
NoAnnotations ==
    [keys |-> {}, dns |-> "", hostnames |-> EmptyList, internalHostnames |-> EmptyList,
     proxy |-> "", useOriginRecord |-> "", originRecordHostname |-> EmptyString,
     state |-> Unparsable]

NoObject ==
    [kind |-> "none", exists |-> FALSE, Annotations |-> NoAnnotations,
     Type |-> "ClusterIP", Ingress |-> <<>>, ClusterIP |-> EmptyString,
     resourceVersion |-> 0, written |-> FALSE]

\* Fault seeding: the address is read whatever the type of the service.
getDesiredServiceStateOfAnyType(service) ==
    LET a == service.Annotations IN
    [Enabled |-> IF annotationCloudflareDNS \in a.keys THEN a.dns ELSE "false",
     Hostnames |-> IF annotationCloudflareHostnames \in a.keys THEN a.hostnames ELSE EmptyList,
     InternalHostnames |-> IF annotationCloudflareInternalHostnames \in a.keys
                           THEN a.internalHostnames ELSE EmptyList,
     Proxy |-> IF annotationCloudflareProxy \in a.keys THEN a.proxy ELSE "true",
     UseOriginRecord |-> IF annotationCloudflareUseOriginRecord \in a.keys
                         THEN a.useOriginRecord ELSE "false",
     OriginRecordHostname |-> IF annotationCloudflareOriginRecordHostname \in a.keys
                              THEN a.originRecordHostname ELSE EmptyString,
     IPAddress |-> IF Len(service.Ingress) > 0 THEN service.Ingress[1] ELSE EmptyString,
     InternalIPAddress |-> IF service.ClusterIP # EmptyString
                           THEN service.ClusterIP ELSE EmptyString]

getDesiredServiceState(service) ==
    LET a == service.Annotations IN
    [Enabled |-> IF annotationCloudflareDNS \in a.keys THEN a.dns ELSE "false",
     Hostnames |-> IF annotationCloudflareHostnames \in a.keys THEN a.hostnames ELSE EmptyList,
     InternalHostnames |-> IF annotationCloudflareInternalHostnames \in a.keys
                           THEN a.internalHostnames ELSE EmptyList,
     Proxy |-> IF annotationCloudflareProxy \in a.keys THEN a.proxy ELSE "true",
     UseOriginRecord |-> IF annotationCloudflareUseOriginRecord \in a.keys
                         THEN a.useOriginRecord ELSE "false",
     OriginRecordHostname |-> IF annotationCloudflareOriginRecordHostname \in a.keys
                              THEN a.originRecordHostname ELSE EmptyString,
     IPAddress |-> IF service.Type = "LoadBalancer" /\ Len(service.Ingress) > 0
                   THEN service.Ingress[1] ELSE EmptyString,
     InternalIPAddress |-> IF service.ClusterIP # EmptyString
                           THEN service.ClusterIP ELSE EmptyString]

\* Fault seeding: the stored state is never read back.
getCurrentServiceStateForgotten(service) == CloudflareState

getCurrentServiceState(service) ==
    IF annotationCloudflareState \notin service.Annotations.keys THEN CloudflareState
    ELSE IF ~jsonUnmarshal(service.Annotations.state).ok THEN CloudflareState
    ELSE jsonUnmarshal(service.Annotations.state).state

getDesiredIngressState(ingress) ==
    LET a == ingress.Annotations IN
    [Enabled |-> IF annotationCloudflareDNS \in a.keys THEN a.dns ELSE "false",
     Hostnames |-> IF annotationCloudflareHostnames \in a.keys THEN a.hostnames ELSE EmptyList,
     InternalHostnames |-> EmptyList,
     Proxy |-> IF annotationCloudflareProxy \in a.keys THEN a.proxy ELSE "true",
     UseOriginRecord |-> IF annotationCloudflareUseOriginRecord \in a.keys
                         THEN a.useOriginRecord ELSE "false",
     OriginRecordHostname |-> IF annotationCloudflareOriginRecordHostname \in a.keys
                              THEN a.originRecordHostname ELSE EmptyString,
     IPAddress |-> IF Len(ingress.Ingress) > 0 THEN ingress.Ingress[1] ELSE EmptyString,
     InternalIPAddress |-> EmptyString]

getCurrentIngressState(ingress) ==
    IF annotationCloudflareState \notin ingress.Annotations.keys THEN CloudflareState
    ELSE IF ~jsonUnmarshal(ingress.Annotations.state).ok THEN CloudflareState
    ELSE jsonUnmarshal(ingress.Annotations.state).state

\* each label needs to be max 63 characters
MaxLabelLength == 63

\* Fault seeding: a label of 63 characters is turned down as well.
validateHostnameShortLabels(hostname) ==
    /\ Len(hostname) >= 2
    /\ \A k \in 1..Len(hostname) : Len(hostname[k]) < MaxLabelLength

validateHostname(hostname) ==
    /\ Len(hostname) >= 2
    /\ \A k \in 1..Len(hostname) : Len(hostname[k]) <= MaxLabelLength

\* ---------------------------------------------------------------- provider

\* The zones the account holds at the provider: a zone, and a zone of its own
\* for one of its subdomains.
Zones ==
    { [ID |-> "023e105f", Name |-> <<"example", "com">>],
      [ID |-> "9a7806061c88", Name |-> <<"svc", "example", "com">>] }

NoZone == [ID |-> "", Name |-> EmptyString]

\* Zero value of the Go struct DNSRecord (the fields the controller uses).
DNSRecord ==
    [ID |-> 0, Type |-> "", Name |-> EmptyString, Content |-> EmptyString,
     Proxiable |-> FALSE, Proxied |-> FALSE, ZoneID |-> ""]

\* result_info.per_page of a list response.
PerPage == 20

\* Addresses the provider refuses to proxy (private ranges).
PrivateAddresses == {<<"10", "0", "0", "1">>, <<"10", "0", "0", "2">>}

\* Whether the provider reports a record of this content as proxiable.
Proxiable(content) == content \notin PrivateAddresses

\* The JSON keys json.Marshal sends for a DNSRecord: every field is
\* omitempty, so a false flag or an empty string is not sent at all.
marshalDNSRecord(r) ==
    (IF r.ID # 0 THEN {"id"} ELSE {})
    \cup (IF r.Type # "" THEN {"type"} ELSE {})
    \cup (IF r.Name # EmptyString THEN {"name"} ELSE {})
    \cup (IF r.Content # EmptyString THEN {"content"} ELSE {})
    \cup (IF r.Proxiable THEN {"proxiable"} ELSE {})
    \cup (IF r.Proxied THEN {"proxied"} ELSE {})
    \cup (IF r.ZoneID # "" THEN {"zone_id"} ELSE {})

\* One REST exchange as the history of a pass keeps it: the request, whether
\* the response reported success, and for a record lookup the count and the
\* first record of the response.
RestCall(verb, arg, ok, count, first) ==
    [verb |-> verb, arg |-> arg, keys |-> marshalDNSRecord(arg), ok |-> ok,
     count |-> count, first |-> first]

\* ---------------------------------------------------------------- variables

VARIABLES
    objects,     \* the orchestration system's store: object id -> object
    records,     \* the provider's DNS records
    nextID,      \* the id the provider gives the next record it creates
    pass,        \* worker -> the reconcile or delete call it is running
    sweep,       \* the poller's loop: position, listed items, sweeps left
    events,      \* object id -> the watch event waiting to be delivered
    waitGroup,   \* the work-in-progress counter
    faults,      \* failures the REST and update calls may still report
    edits,       \* the changes the orchestration system may still make:
                 \* how many, and of which kinds
    deliveries,  \* watch events that may still be delivered
    main,        \* the main goroutine: its position, and the termination
                 \* signals the process may still be sent
    watch,       \* object id -> the watch loop of the object's kind, in the
                 \* versions of main that keep the watch themselves
    twin,        \* the two reconcile functions called with the same
                 \* arguments: the arguments, the records the provider held,
                 \* and the finished call of the first
    completed    \* object id -> the phases that calls which have returned
                 \* carried through, each with the field values it applied

vars == <<objects, records, nextID, pass, sweep, events, waitGroup, faults, edits, deliveries,
          main, watch, twin, completed>>

ObjectIds == {"svc", "ing"}

\* The goroutines that run passes: one per informer, and the sweep loop.
Workers == {"services", "ingresses", "poller"}

\* --------------------------------------------------------- a pass's state

Nil == "nil"

NoRet == "none"

Pending == "pending"

NoOp == [stage |-> "none", numberOfZoneItems |-> 0, zone |-> NoZone, r |-> DNSRecord]

\* calls is the history of the provider operations the call has made, each
\* with its REST exchanges; writes and updates count its writes of the state
\* annotation and its object updates; given is the object as it was handed in.
Idle ==
    [kind |-> "none", mode |-> "idle", initiator |-> "", obj |-> "none",
     object |-> NoObject, desiredState |-> CloudflareState,
     currentState |-> CloudflareState, at |-> [ph |-> "idle", i |-> 0],
     ret |-> NoRet, hasChanges |-> FALSE, op |-> NoOp, status |-> "", err |-> Nil,
     calls |-> <<>>, writes |-> 0, updates |-> 0, given |-> NoObject]

Goto(p, ph, i) == [p EXCEPT !.at = [ph |-> ph, i |-> i], !.ret = NoRet]

Return(p, status, err) ==
    [p EXCEPT !.at = [ph |-> "done", i |-> 0], !.ret = NoRet, !.status = status, !.err = err]

\* Fault seeding: a name of one part is let through to the zone lookups.
CallWithOnePart(p, op, type, name, content, proxy) ==
    LET entry == [phase |-> p.at.ph, op |-> op, type |-> type, name |-> name,
                  content |-> content, proxy |-> proxy, rests |-> <<>>, err |-> Pending]
    IN IF Len(name) < 1
       THEN [p EXCEPT !.calls = Append(@, [entry EXCEPT !.err = "too few parts"]),
                      !.ret = "too few parts"]
       ELSE [p EXCEPT !.calls = Append(@, entry),
                      !.op = [stage |-> "zones", numberOfZoneItems |-> Len(name),
                              zone |-> NoZone, r |-> DNSRecord]]

\* The start of a provider-client operation.  Each of the four operations
\* the reconciler uses begins with GetZoneByDNSName(name), which returns an
\* error before any REST call when the name has fewer than two labels.
Call(p, op, type, name, content, proxy) ==
    LET entry == [phase |-> p.at.ph, op |-> op, type |-> type, name |-> name,
                  content |-> content, proxy |-> proxy, rests |-> <<>>, err |-> Pending]
    IN IF Len(name) < 2
       THEN [p EXCEPT !.calls = Append(@, [entry EXCEPT !.err = "too few parts"]),
                      !.ret = "too few parts"]
       ELSE [p EXCEPT !.calls = Append(@, entry),
                      !.op = [stage |-> "zones", numberOfZoneItems |-> Len(name),
                              zone |-> NoZone, r |-> DNSRecord]]

\* -------------------------------------------------------------- reconciler

\* Fault seeding: the guard does not ask for an address.
externalTargetWithoutAddress(desiredState) ==
    /\ desiredState.Enabled = "true"
    /\ desiredState.Hostnames # EmptyList

\* Fault seeding: the records are written whatever the enable annotation says.
externalTargetOfDisabled(desiredState) ==
    /\ desiredState.Hostnames # EmptyList
    /\ desiredState.IPAddress # EmptyString

\* The guard of the phase for the external hostnames.
externalTarget(desiredState) ==
    /\ desiredState.Enabled = "true"
    /\ desiredState.Hostnames # EmptyList
    /\ desiredState.IPAddress # EmptyString

\* update dns record if anything has changed compared to the stored state
externalChange(desiredState, currentState) ==
    \/ desiredState.IPAddress # currentState.IPAddress
    \/ desiredState.Hostnames # currentState.Hostnames
    \/ desiredState.Proxy # currentState.Proxy
    \/ desiredState.UseOriginRecord # currentState.UseOriginRecord
    \/ desiredState.OriginRecordHostname # currentState.OriginRecordHostname

\* if use origin is enabled
useOriginRecord(desiredState) ==
    /\ desiredState.UseOriginRecord = "true"
    /\ desiredState.OriginRecordHostname # EmptyString

\* Fault seeding: the origin record is removed whenever it is named.
originRecordAlwaysRemoved(desiredState) ==
    desiredState.OriginRecordHostname # EmptyString

\* if use origin is disabled, remove the A record for the origin
originRecordUnused(desiredState) ==
    /\ desiredState.OriginRecordHostname # EmptyString
    /\ \/ desiredState.UseOriginRecord # "true"
       \/ desiredState.OriginRecordHostname = EmptyString

\* Fault seeding: the internal phase runs without internal hostnames.
internalTargetWithoutHostnames(desiredState) ==
    /\ desiredState.Enabled = "true"
    /\ desiredState.InternalIPAddress # EmptyString

\* The guard of the phase for the internal hostnames.
internalTarget(desiredState) ==
    /\ desiredState.Enabled = "true"
    /\ desiredState.InternalHostnames # EmptyList
    /\ desiredState.InternalIPAddress # EmptyString

\* Fault seeding: the internal records count as changed in every pass.
internalChangeAlways(desiredState, currentState) == TRUE

internalChange(desiredState, currentState) ==
    \/ desiredState.InternalIPAddress # currentState.InternalIPAddress
    \/ desiredState.InternalHostnames # currentState.InternalHostnames

NoTwin ==
    [held |-> {}, desiredState |-> CloudflareState, currentState |-> CloudflareState,
     first |-> Idle]

\* One control-flow step of makeServiceChanges: from position p.at, with
\* p.ret the result of the provider operation just finished there (NoRet
\* when none was called yet), to the next position, the next operation's
\* call, or the return.
makeServiceChanges(p) ==
    LET desiredState == p.desiredState
        currentState == p.currentState
        hostnames == desiredState.Hostnames
        internalHostnames == desiredState.InternalHostnames
        i == p.at.i
        useOrigin == useOriginRecord(desiredState)
    IN
    CASE p.at.ph = "phase1" ->
           IF /\ externalTarget(desiredState)
              /\ externalChange(desiredState, currentState)
           THEN [Goto(p, IF useOrigin THEN "origin" ELSE "hostname", 1)
                    EXCEPT !.hasChanges = TRUE]
           ELSE Goto(p, "phase2", 1)
      [] p.at.ph = "origin" ->
           IF p.ret = NoRet
           THEN Call(p, "UpsertDNSRecord", "A", desiredState.OriginRecordHostname,
                     desiredState.IPAddress, FALSE)
           ELSE IF p.ret # Nil THEN Return(p, "failed", p.ret)
           ELSE Goto(p, "hostname", 1)
      [] p.at.ph = "hostname" ->
           IF i > Len(hostnames) THEN Goto(p, "originDelete", 1)
           ELSE IF p.ret = NoRet
           THEN IF ~validateHostname(hostnames[i]) THEN Goto(p, "hostname", i + 1)
                ELSE IF useOrigin
                THEN Call(p, "UpsertDNSRecord", "CNAME", hostnames[i],
                          desiredState.OriginRecordHostname, desiredState.Proxy = "true")
                ELSE Call(p, "UpsertDNSRecord", "A", hostnames[i],
                          desiredState.IPAddress, desiredState.Proxy = "true")
           ELSE IF p.ret # Nil THEN Return(p, "failed", p.ret)
           ELSE Goto(p, "proxy", i)
      [] p.at.ph = "proxy" ->
           IF p.ret = NoRet
           THEN Call(p, "UpdateProxySetting", "", hostnames[i], EmptyString,
                     desiredState.Proxy = "true")
           ELSE IF p.ret # Nil THEN Return(p, "failed", p.ret)
           ELSE Goto(p, "hostname", i + 1)
      [] p.at.ph = "originDelete" ->
           IF p.ret = NoRet
           THEN IF originRecordUnused(desiredState)
                THEN Call(p, "DeleteDNSRecord", "", desiredState.OriginRecordHostname,
                          EmptyString, FALSE)
                ELSE Goto(p, "phase2", 1)
           ELSE IF p.ret # Nil THEN Return(p, "failed", p.ret)
           ELSE Goto(p, "phase2", 1)
      [] p.at.ph = "phase2" ->
           IF /\ internalTarget(desiredState)
              /\ internalChange(desiredState, currentState)
           THEN [Goto(p, "internal", 1) EXCEPT !.hasChanges = TRUE]
           ELSE Goto(p, "commit", 1)
      [] p.at.ph = "internal" ->
           IF i > Len(internalHostnames) THEN Goto(p, "commit", 1)
           ELSE IF p.ret = NoRet
           THEN Call(p, "UpsertDNSRecord", "A", internalHostnames[i],
                     desiredState.InternalIPAddress, FALSE)
           ELSE IF p.ret # Nil THEN Return(p, "failed", p.ret)
           ELSE Goto(p, "internal", i + 1)
      [] p.at.ph = "commit" ->
           IF p.hasChanges
           THEN [Goto(p, "update", 1) EXCEPT
                    !.currentState = desiredState, !.writes = @ + 1,
                    !.object.Annotations.state = jsonMarshal(desiredState),
                    !.object.Annotations.keys = @ \cup {annotationCloudflareState}]
           ELSE Return(p, "skipped", Nil)
      [] OTHER -> p

\* One control-flow step of makeIngressChanges.
makeIngressChanges(p) ==
    LET desiredState == p.desiredState
        currentState == p.currentState
        hostnames == desiredState.Hostnames
        i == p.at.i
        useOrigin == useOriginRecord(desiredState)
    IN
    CASE p.at.ph = "phase1" ->
           IF /\ externalTarget(desiredState)
              /\ externalChange(desiredState, currentState)
           THEN Goto(p, IF useOrigin THEN "origin" ELSE "hostname", 1)
           ELSE Return(p, "skipped", Nil)
      [] p.at.ph = "origin" ->
           IF p.ret = NoRet
           THEN Call(p, "UpsertDNSRecord", "A", desiredState.OriginRecordHostname,
                     desiredState.IPAddress, FALSE)
           ELSE IF p.ret # Nil THEN Return(p, "failed", p.ret)
           ELSE Goto(p, "hostname", 1)
      [] p.at.ph = "hostname" ->
           IF i > Len(hostnames) THEN Goto(p, "originDelete", 1)
           ELSE IF p.ret = NoRet
           THEN IF useOrigin
                THEN Call(p, "UpsertDNSRecord", "CNAME", hostnames[i],
                          desiredState.OriginRecordHostname, desiredState.Proxy = "true")
                ELSE Call(p, "UpsertDNSRecord", "A", hostnames[i],
                          desiredState.IPAddress, desiredState.Proxy = "true")
           ELSE IF p.ret # Nil THEN Return(p, "failed", p.ret)
           ELSE Goto(p, "proxy", i)
      [] p.at.ph = "proxy" ->
           IF p.ret = NoRet
           THEN Call(p, "UpdateProxySetting", "", hostnames[i], EmptyString,
                     desiredState.Proxy = "true")
           ELSE IF p.ret # Nil THEN Return(p, "failed", p.ret)
           ELSE Goto(p, "hostname", i + 1)
      [] p.at.ph = "originDelete" ->
           IF p.ret = NoRet
           THEN IF originRecordUnused(desiredState)
                THEN Call(p, "DeleteDNSRecord", "", desiredState.OriginRecordHostname,
                          EmptyString, FALSE)
                ELSE Goto(p, "commit", 1)
           ELSE IF p.ret # Nil THEN Return(p, "failed", p.ret)
           ELSE Goto(p, "commit", 1)
      [] p.at.ph = "commit" ->
           [Goto(p, "update", 1) EXCEPT
               !.currentState = desiredState, !.writes = @ + 1,
               !.object.Annotations.state = jsonMarshal(desiredState),
               !.object.Annotations.keys = @ \cup {annotationCloudflareState}]
      [] OTHER -> p

\* Fault seeding: the loop over the hostnames ends at the first deletion
\* that fails.
deleteServiceUntilFailure(p) ==
    LET desiredState == p.desiredState
        hostnames == desiredState.Hostnames
        i == p.at.i
        dnsRecordType == IF useOriginRecord(desiredState) THEN "CNAME" ELSE "A"
    IN
    CASE p.at.ph = "delete" ->
           IF i > Len(hostnames) THEN Return(p, p.status, p.err)
           ELSE IF p.ret = NoRet
           THEN Call(p, "DeleteDNSRecordIfMatching", dnsRecordType, hostnames[i],
                     desiredState.IPAddress, FALSE)
           ELSE IF p.ret # Nil THEN Return(p, p.status, p.ret)
           ELSE [Goto(p, "delete", i + 1) EXCEPT !.err = p.ret, !.status = "deleted"]
      [] OTHER -> p

\* One control-flow step of deleteService: the loop over the hostnames goes
\* on after a failed deletion; err is the named result, overwritten by every
\* DeleteDNSRecordIfMatching call.
deleteService(p) ==
    LET desiredState == p.desiredState
        hostnames == desiredState.Hostnames
        i == p.at.i
        dnsRecordType == IF useOriginRecord(desiredState) THEN "CNAME" ELSE "A"
    IN
    CASE p.at.ph = "delete" ->
           IF i > Len(hostnames) THEN Return(p, p.status, p.err)
           ELSE IF p.ret = NoRet
           THEN Call(p, "DeleteDNSRecordIfMatching", dnsRecordType, hostnames[i],
                     desiredState.IPAddress, FALSE)
           ELSE [Goto(p, "delete", i + 1) EXCEPT
                    !.err = p.ret,
                    !.status = IF p.ret = Nil THEN "deleted" ELSE p.status]
      [] OTHER -> p

\* One control-flow step of deleteIngress.
deleteIngress(p) ==
    LET desiredState == p.desiredState
        hostnames == desiredState.Hostnames
        i == p.at.i
        dnsRecordType == IF useOriginRecord(desiredState) THEN "CNAME" ELSE "A"
    IN
    CASE p.at.ph = "delete" ->
           IF i > Len(hostnames) THEN Return(p, p.status, p.err)
           ELSE IF p.ret = NoRet
           THEN Call(p, "DeleteDNSRecordIfMatching", dnsRecordType, hostnames[i],
                     desiredState.IPAddress, FALSE)
           ELSE [Goto(p, "delete", i + 1) EXCEPT
                    !.err = p.ret,
                    !.status = IF p.ret = Nil THEN "deleted" ELSE p.status]
      [] OTHER -> p

\* A pass waits when a REST call or the object update is the next thing to
\* happen, or when it has returned.
Waiting(p) == p.op.stage # "none" \/ p.at.ph \in {"update", "done", "idle", "client"}

Step(p) ==
    IF p.mode = "delete"
    THEN IF p.kind = "service" THEN deleteService(p) ELSE deleteIngress(p)
    ELSE IF p.kind = "service" THEN makeServiceChanges(p) ELSE makeIngressChanges(p)

\* The code runs on from p until it waits.  Each step's result is bound as a
\* value before the next step is taken from it.
RECURSIVE Resume(_)
Resume(p) ==
    IF Waiting(p) THEN p ELSE CHOOSE r \in {Resume(q) : q \in {Step(p)}} : TRUE

\* makeServiceChanges or makeIngressChanges called with a desired and a
\* current state.
makeChanges(kind, object, obj, initiator, desiredState, currentState) ==
    Resume([Idle EXCEPT
        !.kind = kind, !.mode = "process", !.initiator = initiator,
        !.obj = obj, !.object = object,
        !.desiredState = desiredState, !.currentState = currentState,
        !.at = [ph |-> "phase1", i |-> 1], !.status = "failed",
        !.given = object])

\* processService: the desired and the current state are read off the
\* object handed in, and makeServiceChanges runs on them.
processService(service, obj, initiator) ==
    Resume([Idle EXCEPT
        !.kind = "service", !.mode = "process", !.initiator = initiator,
        !.obj = obj, !.object = service,
        !.desiredState = getDesiredServiceState(service),
        !.currentState = getCurrentServiceState(service),
        !.at = [ph |-> "phase1", i |-> 1], !.status = "failed",
        !.given = service])

processIngress(ingress, obj, initiator) ==
    Resume([Idle EXCEPT
        !.kind = "ingress", !.mode = "process", !.initiator = initiator,
        !.obj = obj, !.object = ingress,
        !.desiredState = getDesiredIngressState(ingress),
        !.currentState = getCurrentIngressState(ingress),
        !.at = [ph |-> "phase1", i |-> 1], !.status = "failed",
        !.given = ingress])

startDeleteService(service, obj, initiator) ==
    Resume([Idle EXCEPT
        !.kind = "service", !.mode = "delete", !.initiator = initiator,
        !.obj = obj, !.object = service,
        !.desiredState = getDesiredServiceState(service),
        !.at = [ph |-> "delete", i |-> 1], !.status = "failed", !.given = service])

startDeleteIngress(ingress, obj, initiator) ==
    Resume([Idle EXCEPT
        !.kind = "ingress", !.mode = "delete", !.initiator = initiator,
        !.obj = obj, !.object = ingress,
        !.desiredState = getDesiredIngressState(ingress),
        !.at = [ph |-> "delete", i |-> 1], !.status = "failed", !.given = ingress])

\* ------------------------------------------------------- provider client

\* Fault seeding: the items are taken from the front of the slice.
getFirstItemsFromSlice(source, numberOfItems) == SubSeq(source, 1, numberOfItems)

getLastItemsFromSlice(source, numberOfItems) ==
    SubSeq(source, Len(source) - numberOfItems + 1, Len(source))

\* The zone of that name among the listed ones; NoZone when none matches.
getMatchingZoneFromZones(zones, zoneName) ==
    IF \E z \in zones : z.Name = zoneName
    THEN CHOOSE z \in zones : z.Name = zoneName
    ELSE NoZone

Logged(p, rest) == [p EXCEPT !.calls[Len(p.calls)].rests = Append(@, rest)]

\* Fault seeding: the reconciler drops the error of the operation.
FinishUnchecked(p, err) ==
    Resume([p EXCEPT !.op = NoOp, !.ret = Nil, !.calls[Len(p.calls)].err = err])

\* The provider operation in flight returns err to the reconciler, which
\* runs on to its next REST call, its object update or its return.
Finish(p, err) ==
    Resume([p EXCEPT !.op = NoOp, !.ret = err, !.calls[Len(p.calls)].err = err])

\* Fault seeding: a failed zone lookup counts as one that found no zone.
GetZoneByDNSNameLenient(p, ok, zones, zoneName) ==
    IF ok /\ Cardinality(zones) > 0 /\ Cardinality(zones) <= PerPage
    THEN IF getMatchingZoneFromZones(zones, zoneName) = NoZone
         THEN Finish(p, "no zone matches name")
         ELSE [p EXCEPT !.op.zone = getMatchingZoneFromZones(zones, zoneName),
                        !.op.stage = "records"]
    ELSE IF p.op.numberOfZoneItems - 1 > 1
    THEN [p EXCEPT !.op.numberOfZoneItems = @ - 1]
    ELSE Finish(p, "no matching zone")

\* GetZoneByDNSName after one getZonesByName call: the zone when the lookup
\* found one, else the same lookup with one label less, down to two labels.
GetZoneByDNSName(p, ok, zones, zoneName) ==
    IF ~ok THEN Finish(p, "rest")
    ELSE IF Cardinality(zones) > 0 /\ Cardinality(zones) <= PerPage
    THEN IF getMatchingZoneFromZones(zones, zoneName) = NoZone
         THEN Finish(p, "no zone matches name")
         ELSE [p EXCEPT !.op.zone = getMatchingZoneFromZones(zones, zoneName),
                        !.op.stage = "records"]
    ELSE IF p.op.numberOfZoneItems - 1 > 1
    THEN [p EXCEPT !.op.numberOfZoneItems = @ - 1]
    ELSE Finish(p, "no matching zone")

\* updateDNSRecordByDNSRecord up to its PUT: the type may not change.
updateDNSRecordByDNSRecord(p, dnsRecord, dnsRecordType, dnsRecordContent) ==
    IF dnsRecord.Type # dnsRecordType THEN Finish(p, "cannot change the type")
    ELSE [p EXCEPT !.op.stage = "put",
                   !.op.r = [dnsRecord EXCEPT !.Content = dnsRecordContent]]

\* Fault seeding: the record found is sent with the flag it has.
UpsertDNSRecordKeepingProxy(p, count, r) ==
    LET call == Last(p.calls) IN
    IF count > 1 THEN Finish(p, "more than 1 record by that name")
    ELSE IF count = 1
    THEN IF call.type # r.Type
         THEN [p EXCEPT !.op.stage = "delete", !.op.r = r]
         ELSE updateDNSRecordByDNSRecord(p, r, call.type, call.content)
    ELSE [p EXCEPT !.op.stage = "post"]

\* Fault seeding: of several records by the name the first is upserted.
UpsertDNSRecordOfFirst(p, count, r) ==
    LET call == Last(p.calls) IN
    IF count >= 1
    THEN IF call.type # r.Type
         THEN [p EXCEPT !.op.stage = "delete", !.op.r = r]
         ELSE updateDNSRecordByDNSRecord(
                  p, [r EXCEPT !.Proxied = IF r.Proxied /\ ~call.proxy THEN call.proxy ELSE @],
                  call.type, call.content)
    ELSE [p EXCEPT !.op.stage = "post"]

\* Fault seeding: a record found is updated in place whatever its type.
UpsertDNSRecordInPlace(p, count, r) ==
    LET call == Last(p.calls) IN
    IF count > 1 THEN Finish(p, "more than 1 record by that name")
    ELSE IF count = 1
    THEN updateDNSRecordByDNSRecord(p, r, call.type, call.content)
    ELSE [p EXCEPT !.op.stage = "post"]

\* UpsertDNSRecord after the record lookup: count records by that name, r
\* the first of them.
UpsertDNSRecord(p, count, r) ==
    LET call == Last(p.calls) IN
    IF count > 1 THEN Finish(p, "more than 1 record by that name")
    ELSE IF count = 1
    THEN IF call.type # r.Type
         THEN [p EXCEPT !.op.stage = "delete", !.op.r = r]
         ELSE updateDNSRecordByDNSRecord(
                  p, [r EXCEPT !.Proxied = IF r.Proxied /\ ~call.proxy THEN call.proxy ELSE @],
                  call.type, call.content)
    ELSE [p EXCEPT !.op.stage = "post"]

\* Fault seeding: the flag is sent whether or not the record is proxiable.
UpdateProxySettingOfAnyRecord(p, count, r) ==
    LET call == Last(p.calls) IN
    IF count = 0 THEN Finish(p, "no matching dns record")
    ELSE IF count > 1 THEN Finish(p, "more than 1 record by that name")
    ELSE [p EXCEPT !.op.stage = "put", !.op.r = [r EXCEPT !.Proxied = call.proxy]]

UpdateProxySetting(p, count, r) ==
    LET call == Last(p.calls) IN
    IF count = 0 THEN Finish(p, "no matching dns record")
    ELSE IF count > 1 THEN Finish(p, "more than 1 record by that name")
    ELSE IF r.Proxiable
    THEN [p EXCEPT !.op.stage = "put", !.op.r = [r EXCEPT !.Proxied = call.proxy]]
    ELSE Finish(p, Nil)

\* UpdateDNSRecord (updateDNSRecordByZone) after the record lookup.
UpdateDNSRecord(p, count, r) ==
    LET call == Last(p.calls) IN
    IF count = 0 THEN Finish(p, "no matching dns record")
    ELSE updateDNSRecordByDNSRecord(p, r, call.type, call.content)

\* Fault seeding: a name without a record counts as deleted.
DeleteDNSRecordIfAny(p, count, r) ==
    IF count = 0 THEN Finish(p, Nil)
    ELSE [p EXCEPT !.op.stage = "delete", !.op.r = r]

\* DeleteDNSRecord (deleteDNSRecordByZone) after the record lookup.
DeleteDNSRecord(p, count, r) ==
    IF count = 0 THEN Finish(p, "no matching dns record")
    ELSE [p EXCEPT !.op.stage = "delete", !.op.r = r]

\* Fault seeding: the content of the record found is not compared.
DeleteDNSRecordIfTypeMatching(p, count, r) ==
    LET call == Last(p.calls) IN
    IF count = 0 THEN Finish(p, "no matching dns record")
    ELSE IF r.Type # call.type
    THEN Finish(p, "type or content does not match")
    ELSE [p EXCEPT !.op.stage = "delete", !.op.r = r]

DeleteDNSRecordIfMatching(p, count, r) ==
    LET call == Last(p.calls) IN
    IF count = 0 THEN Finish(p, "no matching dns record")
    ELSE IF r.Type # call.type \/ r.Content # call.content
    THEN Finish(p, "type or content does not match")
    ELSE [p EXCEPT !.op.stage = "delete", !.op.r = r]

\* What a REST call may answer: success, or failure while failures remain.
Outcomes == IF faults > 0 THEN {TRUE, FALSE} ELSE {TRUE}

\* The goroutines run as long as the process does.
Running == main.pc # "exited"

\* GET /zones/?name=...
getZonesByName(w) ==
    /\ Running
    /\ LET p == pass[w]
           zoneName == getLastItemsFromSlice(Last(p.calls).name, p.op.numberOfZoneItems)
           zones == {z \in Zones : z.Name = zoneName}
       IN /\ p.op.stage = "zones"
          /\ \E ok \in Outcomes :
               /\ faults' = IF ok THEN faults ELSE faults - 1
               /\ pass' = [pass EXCEPT ![w] =
                     GetZoneByDNSName(
                         Logged(p, RestCall("GET zones", [DNSRecord EXCEPT !.Name = zoneName], ok,
                                           0, DNSRecord)),
                         ok, zones, zoneName)]
          /\ UNCHANGED <<objects, records, nextID, sweep, events, waitGroup, edits, deliveries, main, watch,
                   twin, completed>>

\* GET /zones/{id}/dns_records/?name=...: the provider lists the records of
\* that name in an order of its own.
getDNSRecordsByZoneAndName(w) ==
    /\ Running
    /\ LET p == pass[w]
           call == Last(p.calls)
           found == {r \in records : r.ZoneID = p.op.zone.ID /\ r.Name = call.name}
           count == Cardinality(found)
       IN /\ p.op.stage = "records"
          /\ \E ok \in Outcomes :
             \E first \in IF found = {} THEN {DNSRecord} ELSE found :
               LET q == Logged(p, RestCall("GET dns_records",
                                           [DNSRecord EXCEPT !.Name = call.name], ok,
                                           IF ok THEN count ELSE 0,
                                           IF ok THEN first ELSE DNSRecord))
               IN /\ faults' = IF ok THEN faults ELSE faults - 1
                  /\ pass' = [pass EXCEPT ![w] =
                        IF ~ok THEN Finish(q, "rest")
                        ELSE CASE call.op = "UpsertDNSRecord" -> UpsertDNSRecord(q, count, first)
                               [] call.op = "UpdateProxySetting" -> UpdateProxySetting(q, count, first)
                               [] call.op = "DeleteDNSRecord" -> DeleteDNSRecord(q, count, first)
                               [] call.op = "UpdateDNSRecord" -> UpdateDNSRecord(q, count, first)
                               [] OTHER -> DeleteDNSRecordIfMatching(q, count, first)]
          /\ UNCHANGED <<objects, records, nextID, sweep, events, waitGroup, edits, deliveries, main, watch,
                   twin, completed>>

\* DELETE /zones/{id}/dns_records/{id}: the provider reports failure for a
\* record it no longer holds.
deleteDNSRecordByDNSRecord(w) ==
    /\ Running
    /\ LET p == pass[w]
           held == \E r \in records : r.ID = p.op.r.ID
       IN /\ p.op.stage = "delete"
          /\ \E answer \in Outcomes :
               LET ok == answer /\ held
                   q == Logged(p, RestCall("DELETE", p.op.r, ok, 0, DNSRecord))
               IN /\ faults' = IF answer THEN faults ELSE faults - 1
                  /\ records' = IF ok THEN {r \in records : r.ID # p.op.r.ID} ELSE records
                  /\ pass' = [pass EXCEPT ![w] =
                        IF ~ok THEN Finish(q, "rest")
                        ELSE IF Last(p.calls).op = "UpsertDNSRecord"
                        THEN [q EXCEPT !.op.stage = "post"]
                        ELSE Finish(q, Nil)]
          /\ UNCHANGED <<objects, nextID, sweep, events, waitGroup, edits, deliveries, main, watch, twin,
                   completed>>

\* Fault seeding: a create that fails after the old record was deleted puts
\* the old record back.
createDNSRecordByZoneOrRestore(w) ==
    /\ Running
    /\ LET p == pass[w]
           call == Last(p.calls)
           newDNSRecord == [DNSRecord EXCEPT !.Type = call.type, !.Name = call.name,
                                             !.Content = call.content]
           deleted == call.rests # <<>> /\ Last(call.rests).verb = "DELETE"
       IN /\ p.op.stage = "post"
          /\ \E ok \in Outcomes :
               LET q == Logged(p, RestCall("POST", newDNSRecord, ok, 0, DNSRecord))
               IN /\ faults' = IF ok THEN faults ELSE faults - 1
                  /\ records' = IF ok
                                THEN records \cup
                                     {[newDNSRecord EXCEPT
                                          !.ID = nextID, !.ZoneID = p.op.zone.ID,
                                          !.Proxiable = Proxiable(call.content),
                                          !.Proxied = "proxied" \in marshalDNSRecord(newDNSRecord)]}
                                ELSE IF deleted THEN records \cup {p.op.r} ELSE records
                  /\ nextID' = IF ok THEN nextID + 1 ELSE nextID
                  /\ pass' = [pass EXCEPT ![w] = Finish(q, IF ok THEN Nil ELSE "rest")]
          /\ UNCHANGED <<objects, sweep, events, waitGroup, edits, deliveries, main, watch, twin, completed>>

\* POST /zones/{id}/dns_records (createDNSRecordByZone): type, name and
\* content are sent; the provider adds a record under a new id.  A zone may
\* hold several records of one name; whether the provider takes a record
\* identical to one it holds is the provider's choice.
createDNSRecordByZone(w) ==
    /\ Running
    /\ LET p == pass[w]
           call == Last(p.calls)
           newDNSRecord == [DNSRecord EXCEPT !.Type = call.type, !.Name = call.name,
                                             !.Content = call.content]
           identical == \E r \in records :
                           /\ r.ZoneID = p.op.zone.ID /\ r.Type = call.type
                           /\ r.Name = call.name /\ r.Content = call.content
       IN /\ p.op.stage = "post"
          /\ \E answer \in Outcomes :
             \E taken \in IF identical THEN {TRUE, FALSE} ELSE {TRUE} :
               LET ok == answer /\ taken
                   q == Logged(p, RestCall("POST", newDNSRecord, ok, 0, DNSRecord))
               IN /\ faults' = IF answer THEN faults ELSE faults - 1
                  /\ records' = IF ok
                                THEN records \cup
                                     {[newDNSRecord EXCEPT
                                          !.ID = nextID, !.ZoneID = p.op.zone.ID,
                                          !.Proxiable = Proxiable(call.content),
                                          !.Proxied = "proxied" \in marshalDNSRecord(newDNSRecord)]}
                                ELSE records
                  /\ nextID' = IF ok THEN nextID + 1 ELSE nextID
                  /\ pass' = [pass EXCEPT ![w] = Finish(q, IF ok THEN Nil ELSE "rest")]
          /\ UNCHANGED <<objects, sweep, events, waitGroup, edits, deliveries, main, watch, twin, completed>>

\* PUT /zones/{id}/dns_records/{id}, sent by updateDNSRecordByDNSRecord and
\* by UpdateProxySetting: a full update of the record; a flag the body does
\* not carry is off.  The provider reports failure for a record it no longer
\* holds and for proxying a content it cannot proxy.
restClientPut(w) ==
    /\ Running
    /\ LET p == pass[w]
           body == p.op.r
           sent == marshalDNSRecord(body)
           held == \E r \in records : r.ID = body.ID
           accepted == held /\ ("proxied" \in sent => Proxiable(body.Content))
       IN /\ p.op.stage = "put"
          /\ \E answer \in Outcomes :
               LET ok == answer /\ accepted
                   q == Logged(p, RestCall("PUT", body, ok, 0, DNSRecord))
               IN /\ faults' = IF answer THEN faults ELSE faults - 1
                  /\ records' = IF ok
                                THEN {r \in records : r.ID # body.ID} \cup
                                     {[body EXCEPT !.Proxiable = Proxiable(body.Content),
                                                   !.Proxied = "proxied" \in sent]}
                                ELSE records
                  /\ pass' = [pass EXCEPT ![w] = Finish(q, IF ok THEN Nil ELSE "rest")]
          /\ UNCHANGED <<objects, nextID, sweep, events, waitGroup, edits, deliveries, main, watch, twin,
                   completed>>

\* ------------------------------------------------- object update, handlers

\* Fault seeding: the store takes the object handed in whatever version it
\* holds itself.
UpdateUnversioned(w) ==
    /\ Running
    /\ LET p == pass[w]
           stored == objects[p.obj]
       IN /\ p.at.ph = "update"
          /\ \E answer \in Outcomes :
               LET ok == answer /\ stored.exists
               IN /\ faults' = IF answer THEN faults ELSE faults - 1
                  /\ objects' = IF ok
                                THEN [objects EXCEPT ![p.obj] =
                                         [p.object EXCEPT
                                             !.resourceVersion = stored.resourceVersion + 1,
                                             !.written = TRUE]]
                                ELSE objects
                  /\ events' = IF ok THEN [events EXCEPT ![p.obj] = "modified"] ELSE events
                  /\ pass' = [pass EXCEPT ![w] =
                        IF ok THEN Return([p EXCEPT !.updates = @ + 1], "succeeded", Nil)
                        ELSE Return([p EXCEPT !.updates = @ + 1], "failed", "update failed")]
          /\ UNCHANGED <<records, nextID, sweep, waitGroup, edits, deliveries, main, watch, twin, completed>>

\* Fault seeding: the error of the update is dropped.
UpdateUnchecked(w) ==
    /\ Running
    /\ LET p == pass[w]
           stored == objects[p.obj]
           current == stored.exists /\ stored.resourceVersion = p.object.resourceVersion
       IN /\ p.at.ph = "update"
          /\ \E answer \in Outcomes :
               LET ok == answer /\ current
               IN /\ faults' = IF answer THEN faults ELSE faults - 1
                  /\ objects' = IF ok
                                THEN [objects EXCEPT ![p.obj] =
                                         [p.object EXCEPT !.resourceVersion = @ + 1,
                                                          !.written = TRUE]]
                                ELSE objects
                  /\ events' = IF ok THEN [events EXCEPT ![p.obj] = "modified"] ELSE events
                  /\ pass' = [pass EXCEPT ![w] =
                        Return([p EXCEPT !.updates = @ + 1], "succeeded", Nil)]
          /\ UNCHANGED <<records, nextID, sweep, waitGroup, edits, deliveries, main, watch, twin, completed>>

\* kubeClientset ... Update(object): the store takes the object handed in
\* when it is the version the store holds (resourceVersion), and reports a
\* conflict otherwise; the stored change raises a watch event.
Update(w) ==
    /\ Running
    /\ LET p == pass[w]
           stored == objects[p.obj]
           current == stored.exists /\ stored.resourceVersion = p.object.resourceVersion
       IN /\ p.at.ph = "update"
          /\ \E answer \in Outcomes :
               LET ok == answer /\ current
               IN /\ faults' = IF answer THEN faults ELSE faults - 1
                  /\ objects' = IF ok
                                THEN [objects EXCEPT ![p.obj] =
                                         [p.object EXCEPT !.resourceVersion = @ + 1,
                                                          !.written = TRUE]]
                                ELSE objects
                  /\ events' = IF ok THEN [events EXCEPT ![p.obj] = "modified"] ELSE events
                  /\ pass' = [pass EXCEPT ![w] =
                        IF ok THEN Return([p EXCEPT !.updates = @ + 1], "succeeded", Nil)
                        ELSE Return([p EXCEPT !.updates = @ + 1], "failed", "update failed")]
          /\ UNCHANGED <<records, nextID, sweep, waitGroup, edits, deliveries, main, watch, twin, completed>>

\* The call p has made every provider call of a phase, and each returned
\* without error: the phase, with the values of the fields it compares.
Carried(p, phase) ==
    LET d == p.desiredState
        a == IF p.kind = "service" THEN getCurrentServiceState(p.given)
             ELSE getCurrentIngressState(p.given)
        made(ph, op, type, name, content) ==
            \E k \in 1..Len(p.calls) :
                /\ p.calls[k].phase = ph /\ p.calls[k].op = op /\ p.calls[k].name = name
                /\ op = "UpsertDNSRecord" =>
                     p.calls[k].type = type /\ p.calls[k].content = content
                /\ op = "UpdateProxySetting" => p.calls[k].proxy = (d.Proxy = "true")
                /\ p.calls[k].err = Nil
        named == {d.Hostnames[k] : k \in 1..Len(d.Hostnames)}
        hostnames == IF p.kind = "service" THEN {h \in named : validateHostname(h)} ELSE named
    IN IF phase = 1
       THEN /\ externalTarget(d) /\ externalChange(d, a)
            /\ useOriginRecord(d) =>
                 made("origin", "UpsertDNSRecord", "A", d.OriginRecordHostname, d.IPAddress)
            /\ \A h \in hostnames :
                 /\ IF useOriginRecord(d)
                    THEN made("hostname", "UpsertDNSRecord", "CNAME", h, d.OriginRecordHostname)
                    ELSE made("hostname", "UpsertDNSRecord", "A", h, d.IPAddress)
                 /\ made("proxy", "UpdateProxySetting", "", h, EmptyString)
            /\ originRecordUnused(d) =>
                 made("originDelete", "DeleteDNSRecord", "", d.OriginRecordHostname, EmptyString)
       ELSE /\ p.kind = "service"
            /\ internalTarget(d) /\ internalChange(d, a)
            /\ \A k \in 1..Len(d.InternalHostnames) :
                 made("internal", "UpsertDNSRecord", "A", d.InternalHostnames[k],
                      d.InternalIPAddress)

\* The field values a phase compares with the stored state.
Compared(state, phase) ==
    IF phase = 1
    THEN <<state.IPAddress, state.Hostnames, state.Proxy, state.UseOriginRecord,
           state.OriginRecordHostname>>
    ELSE <<state.InternalIPAddress, state.InternalHostnames>>

\* The phases the reconcile call p has carried through.
Phases(p) ==
    IF p.mode # "process" THEN {}
    ELSE {[phase |-> phase, fields |-> Compared(p.desiredState, phase)] :
            phase \in {n \in {1, 2} : Carried(p, n)}}

\* What the call p carried through is kept with its object.
Noted(p) ==
    IF p.obj \in ObjectIds THEN [completed EXCEPT ![p.obj] = @ \cup Phases(p)] ELSE completed

\* The informer goroutine of an object's kind.
Informer(o) == IF objects[o].kind = "service" THEN "services" ELSE "ingresses"

process(o, object, initiator) ==
    IF object.kind = "service" THEN processService(object, o, initiator)
    ELSE processIngress(object, o, initiator)

\* AddFunc of watchServices / watchIngresses.
AddFunc(o) ==
    /\ Running
    /\ /\ events[o] = "added" /\ objects[o].exists
       /\ deliveries > 0
       /\ pass[Informer(o)].mode = "idle"
       /\ waitGroup' = waitGroup + 1
       /\ pass' = [pass EXCEPT ![Informer(o)] = process(o, objects[o], "watcher:added")]
       /\ events' = [events EXCEPT ![o] = "none"]
       /\ deliveries' = deliveries - 1
       /\ UNCHANGED <<objects, records, nextID, sweep, faults, edits, main, watch, twin, completed>>

\* UpdateFunc of watchServices / watchIngresses.
UpdateFunc(o) ==
    /\ Running
    /\ /\ events[o] = "modified" /\ objects[o].exists
       /\ deliveries > 0
       /\ pass[Informer(o)].mode = "idle"
       /\ waitGroup' = waitGroup + 1
       /\ pass' = [pass EXCEPT ![Informer(o)] = process(o, objects[o], "watcher:modified")]
       /\ events' = [events EXCEPT ![o] = "none"]
       /\ deliveries' = deliveries - 1
       /\ UNCHANGED <<objects, records, nextID, sweep, faults, edits, main, watch, twin, completed>>

\* DeleteFunc of watchServices / watchIngresses: the handler is given the
\* object as it was last stored.
DeleteFunc(o) ==
    /\ Running
    /\ /\ events[o] = "deleted"
       /\ deliveries > 0
       /\ pass[Informer(o)].mode = "idle"
       /\ waitGroup' = waitGroup + 1
       /\ pass' = [pass EXCEPT ![Informer(o)] =
             IF objects[o].kind = "service"
             THEN startDeleteService(objects[o], o, "watcher:deleted")
             ELSE startDeleteIngress(objects[o], o, "watcher:delete")]
       /\ events' = [events EXCEPT ![o] = "none"]
       /\ deliveries' = deliveries - 1
       /\ UNCHANGED <<objects, records, nextID, sweep, faults, edits, main, watch, twin, completed>>

\* Fault seeding: a failed pass of the sweep ends the sweep.
DoneEndsSweep(w) ==
    /\ Running
    /\ /\ pass[w].at.ph = "done"
       /\ waitGroup' = waitGroup - 1
       /\ pass' = [pass EXCEPT ![w] = Idle]
       /\ completed' = Noted(pass[w])
       /\ sweep' = IF w = "poller" /\ pass[w].err # Nil
                   THEN [sweep EXCEPT !.failed = TRUE, !.pc = "ingresses", !.idx = 1,
                                      !.items = <<>>]
                   ELSE sweep
       /\ UNCHANGED <<objects, records, nextID, events, faults, edits, deliveries, main, watch, twin>>

\* The call returns to its handler or to the sweep loop: waitGroup.Done().
\* In the sweep loop an error is logged and the loop continues.
Done(w) ==
    /\ Running
    /\ /\ pass[w].at.ph = "done"
       /\ waitGroup' = waitGroup - 1
       /\ pass' = [pass EXCEPT ![w] = Idle]
       /\ completed' = Noted(pass[w])
       /\ sweep' = IF w = "poller" /\ pass[w].err # Nil
                   THEN [sweep EXCEPT !.failed = TRUE]
                   ELSE sweep
       /\ UNCHANGED <<objects, records, nextID, events, faults, edits, deliveries, main, watch, twin>>

\* ------------------------------------------------------------------- sweep

\* The items a list call returns: the stored objects of that kind.
Items(kind) ==
    LET o == IF kind = "service" THEN "svc" ELSE "ing" IN
    IF objects[o].exists /\ objects[o].kind = kind
    THEN <<[obj |-> o, object |-> objects[o]]>> ELSE <<>>

\* Services("").List: a failed call leaves no items to loop over.
ListServices ==
    /\ Running
    /\ /\ sweep.pc = "listServices" /\ sweep.left > 0
       /\ \E ok \in Outcomes :
            /\ faults' = IF ok THEN faults ELSE faults - 1
            /\ sweep' = [sweep EXCEPT !.pc = "services", !.idx = 1,
                                      !.left = IF sweep.forever THEN @ ELSE @ - 1,
                                      !.items = IF ok THEN Items("service") ELSE <<>>,
                                      !.sleepTime = 0,
                                      !.called = @ \cup {"service"},
                                      !.listed = IF ok THEN @ \cup {"service"} ELSE @,
                                      !.failed = @ \/ ~ok]
       /\ UNCHANGED <<objects, records, nextID, pass, events, waitGroup, edits, deliveries, main, watch,
                   twin, completed>>

\* The body of the loop over services.Items.
SweepService ==
    /\ Running
    /\ /\ sweep.pc = "services" /\ sweep.idx <= Len(sweep.items)
       /\ pass["poller"].mode = "idle"
       /\ waitGroup' = waitGroup + 1
       /\ pass' = [pass EXCEPT !["poller"] =
             processService(sweep.items[sweep.idx].object, sweep.items[sweep.idx].obj, "poller")]
       /\ sweep' = [sweep EXCEPT !.idx = @ + 1, !.passed = @ \cup {sweep.items[sweep.idx].obj}]
       /\ UNCHANGED <<objects, records, nextID, events, faults, edits, deliveries, main, watch, twin,
                   completed>>

ListIngresses ==
    /\ Running
    /\ /\ sweep.pc = "services" /\ sweep.idx > Len(sweep.items)
       /\ pass["poller"].mode = "idle"
       /\ \E ok \in Outcomes :
            /\ faults' = IF ok THEN faults ELSE faults - 1
            /\ sweep' = [sweep EXCEPT !.pc = "ingresses", !.idx = 1,
                                      !.items = IF ok THEN Items("ingress") ELSE <<>>,
                                      !.called = @ \cup {"ingress"},
                                      !.listed = IF ok THEN @ \cup {"ingress"} ELSE @,
                                      !.failed = @ \/ ~ok]
       /\ UNCHANGED <<objects, records, nextID, pass, events, waitGroup, edits, deliveries, main, watch,
                   twin, completed>>

\* The body of the loop over ingresses.Items.
SweepIngress ==
    /\ Running
    /\ /\ sweep.pc = "ingresses" /\ sweep.idx <= Len(sweep.items)
       /\ pass["poller"].mode = "idle"
       /\ waitGroup' = waitGroup + 1
       /\ pass' = [pass EXCEPT !["poller"] =
             processIngress(sweep.items[sweep.idx].object, sweep.items[sweep.idx].obj, "poller")]
       /\ sweep' = [sweep EXCEPT !.idx = @ + 1, !.passed = @ \cup {sweep.items[sweep.idx].obj}]
       /\ UNCHANGED <<objects, records, nextID, events, faults, edits, deliveries, main, watch, twin,
                   completed>>

\* The base of the sleep between two sweeps, and of the sleep of the older
\* watch loops, in seconds.
SweepBase == 900

WatchBase == 30

\* r.Intn(n): any of 0 .. n-1.
Intn(n) == 0 .. (n - 1)

\* Fault seeding: the deviation is half of the input.
applyJitterByHalf(input) ==
    LET deviation == (50 * input) \div 100
    IN { input - deviation + n : n \in Intn(2 * deviation) }

\* applyJitter: the values it may return.  int(0.25 * float64(input))
\* truncates.
applyJitter(input) ==
    LET deviation == (25 * input) \div 100
    IN { input - deviation + n : n \in Intn(2 * deviation) }

\* time.Sleep(applyJitter(900)) and round the loop again.  The time slept is
\* kept in the runs that watch the clock.
Sleep ==
    /\ Running
    /\ /\ sweep.pc = "ingresses" /\ sweep.idx > Len(sweep.items)
       /\ pass["poller"].mode = "idle"
       /\ \E sleepTime \in IF sweep.clock THEN applyJitter(SweepBase) ELSE {0} :
            sweep' = [sweep EXCEPT !.pc = "listServices", !.idx = 1, !.items = <<>>,
                                   !.sleepTime = sleepTime,
                                   !.called = {}, !.listed = {}, !.passed = {},
                                   !.failed = FALSE, !.before = @ \/ sweep.failed]
       /\ UNCHANGED <<objects, records, nextID, pass, events, waitGroup, faults, edits, deliveries, main, watch,
                   twin, completed>>

\* -------------------------------------------------------------- watch loop

\* The loop that keeps the watch of one kind: it opens the watch, reads the
\* events of the stream one after another, and after an error sleeps and
\* opens the watch again.  failures counts the failed openings and the stream
\* errors, sleeps the sleeps, read the events taken off the stream that
\* start a pass, and completed the passes that have returned.
Connecting ==
    [pc |-> "connect", sleepTime |-> 0, failures |-> 0, sleeps |-> 0, read |-> 0,
     completed |-> 0]

Watcher(o) == IF o = "svc" THEN "services" ELSE "ingresses"

\* WatchServices / WatchIngresses: the watch opens, or the call fails.
WatchConnect(o) ==
    /\ Running
    /\ watch[o].pc = "connect"
    /\ \E ok \in Outcomes :
         /\ faults' = IF ok THEN faults ELSE faults - 1
         /\ watch' = [watch EXCEPT ![o].pc = IF ok THEN "streaming" ELSE "backoff",
                                   ![o].sleepTime = 0,
                                   ![o].failures = IF ok THEN @ ELSE @ + 1]
    /\ UNCHANGED <<objects, records, nextID, pass, sweep, events, waitGroup, edits, deliveries,
                   main, twin, completed>>

\* watcher.Next() returns an error: the inner loop breaks.
WatchError(o) ==
    /\ Running
    /\ watch[o].pc = "streaming" /\ faults > 0
    /\ faults' = faults - 1
    /\ watch' = [watch EXCEPT ![o].pc = "backoff", ![o].failures = @ + 1]
    /\ UNCHANGED <<objects, records, nextID, pass, sweep, events, waitGroup, edits, deliveries,
                   main, twin, completed>>

\* watcher.Next() returns an event: an added or modified object is given
\* to processService / processIngress, any other event is read over.
WatchNext(o) ==
    /\ Running
    /\ watch[o].pc = "streaming"
    /\ events[o] # "none" /\ deliveries > 0
    /\ events' = [events EXCEPT ![o] = "none"]
    /\ deliveries' = deliveries - 1
    /\ IF events[o] \in {"added", "modified"}
       THEN /\ waitGroup' = waitGroup + 1
            /\ pass' = [pass EXCEPT ![Watcher(o)] =
                  process(o, objects[o],
                          IF events[o] = "added" THEN "watcher:added" ELSE "watcher:modified")]
            /\ watch' = [watch EXCEPT ![o].pc = "processing", ![o].read = @ + 1]
       ELSE UNCHANGED <<waitGroup, pass, watch, twin, completed>>
    /\ UNCHANGED <<objects, records, nextID, sweep, faults, edits, main, twin, completed>>

\* Fault seeding: a failed pass breaks the inner loop.
WatchDoneOrBreak(o) ==
    /\ Running
    /\ watch[o].pc = "processing" /\ pass[Watcher(o)].at.ph = "done"
    /\ waitGroup' = waitGroup - 1
    /\ pass' = [pass EXCEPT ![Watcher(o)] = Idle]
    /\ completed' = Noted(pass[Watcher(o)])
    /\ watch' = [watch EXCEPT
          ![o].pc = IF pass[Watcher(o)].err # Nil THEN "backoff" ELSE "streaming",
          ![o].completed = @ + 1]
    /\ UNCHANGED <<objects, records, nextID, sweep, events, faults, edits, deliveries, main, twin>>

\* The call returns: waitGroup.Done(), an error is logged, and the inner
\* loop continues with the next event.
WatchDone(o) ==
    /\ Running
    /\ watch[o].pc = "processing" /\ pass[Watcher(o)].at.ph = "done"
    /\ waitGroup' = waitGroup - 1
    /\ pass' = [pass EXCEPT ![Watcher(o)] = Idle]
    /\ completed' = Noted(pass[Watcher(o)])
    /\ watch' = [watch EXCEPT ![o].pc = "streaming", ![o].completed = @ + 1]
    /\ UNCHANGED <<objects, records, nextID, sweep, events, faults, edits, deliveries, main, twin>>

\* time.Sleep(applyJitter(30)) and round the outer loop again.
WatchSleep(o) ==
    /\ Running
    /\ watch[o].pc = "backoff"
    /\ \E sleepTime \in applyJitter(WatchBase) :
         watch' = [watch EXCEPT ![o].pc = "connect", ![o].sleepTime = sleepTime,
                                ![o].sleeps = @ + 1]
    /\ UNCHANGED <<objects, records, nextID, pass, sweep, events, waitGroup, faults, edits,
                   deliveries, main, twin, completed>>

\* ---------------------------------------------------------------- shutdown

\* signalReceived := <-gracefulShutdown: SIGTERM or SIGINT arrives.
Signal ==
    /\ main.pc = "signal" /\ main.signals > 0
    /\ main' = [pc |-> "wait", signals |-> main.signals - 1]
    /\ UNCHANGED <<objects, records, nextID, pass, sweep, events, waitGroup, faults, edits,
                   deliveries, watch, twin, completed>>

\* waitGroup.Wait() returns: the counter is zero.
Wait ==
    /\ main.pc = "wait" /\ waitGroup = 0
    /\ main' = [main EXCEPT !.pc = "return"]
    /\ UNCHANGED <<objects, records, nextID, pass, sweep, events, waitGroup, faults, edits,
                   deliveries, watch, twin, completed>>

\* main returns and the process ends, whatever its goroutines are doing.
Exit ==
    /\ main.pc = "return"
    /\ main' = [main EXCEPT !.pc = "exited"]
    /\ UNCHANGED <<objects, records, nextID, pass, sweep, events, waitGroup, faults, edits,
                   deliveries, watch, twin, completed>>

\* ----------------------------------------------------------- environment

HostA == <<"a", "example", "com">>
HostB == <<"b", "example", "com">>
HostOrigin == <<"origin", "example", "com">>
HostInternal == <<"int", "svc", "example", "com">>
HostInternalB == <<"intb", "svc", "example", "com">>
HostOneLabel == <<"localhost">>
HostNoZone == <<"a", "nozone", "org">>
\* A name with a label of 64 characters, and one with a label of 63.
HostLongLabel == <<"llllllllllllllllllllllllllllllllllllllllllllllllllllllllllllllll", "example", "com">>
HostMaxLabel == <<"mmmmmmmmmmmmmmmmmmmmmmmmmmmmmmmmmmmmmmmmmmmmmmmmmmmmmmmmmmmmmmm", "example", "com">>
IP1 == <<"203", "0", "113", "9">>
IP2 == <<"203", "0", "113", "10">>
ClusterIP1 == <<"10", "0", "0", "1">>
\* The address of a load balancer inside the private network.
InternalLBIP == <<"10", "0", "0", "2">>

Annotate(a, key, value) ==
    CASE key = annotationCloudflareDNS ->
           [a EXCEPT !.keys = @ \cup {key}, !.dns = value]
      [] key = annotationCloudflareHostnames ->
           [a EXCEPT !.keys = @ \cup {key}, !.hostnames = value]
      [] key = annotationCloudflareInternalHostnames ->
           [a EXCEPT !.keys = @ \cup {key}, !.internalHostnames = value]
      [] key = annotationCloudflareProxy ->
           [a EXCEPT !.keys = @ \cup {key}, !.proxy = value]
      [] key = annotationCloudflareUseOriginRecord ->
           [a EXCEPT !.keys = @ \cup {key}, !.useOriginRecord = value]
      [] key = annotationCloudflareOriginRecordHostname ->
           [a EXCEPT !.keys = @ \cup {key}, !.originRecordHostname = value]
      [] OTHER -> [a EXCEPT !.keys = @ \cup {key}, !.state = value]

Enabled == Annotate(NoAnnotations, annotationCloudflareDNS, "true")

\* Annotation sets of the objects the controller meets, without a state
\* annotation: none has been reconciled yet.
Profiles ==
    { NoAnnotations,
      Annotate(NoAnnotations, annotationCloudflareHostnames, <<HostA>>),
      Annotate(Annotate(NoAnnotations, annotationCloudflareDNS, "false"),
               annotationCloudflareHostnames, <<HostA, HostB>>),
      Annotate(Enabled, annotationCloudflareHostnames, <<HostA, HostB>>),
      Annotate(Annotate(Enabled, annotationCloudflareHostnames, <<HostA>>),
               annotationCloudflareProxy, "false"),
      Annotate(Annotate(Annotate(Enabled, annotationCloudflareHostnames, <<HostA>>),
                        annotationCloudflareUseOriginRecord, "true"),
               annotationCloudflareOriginRecordHostname, HostOrigin),
      Annotate(Annotate(Enabled, annotationCloudflareHostnames, <<HostA>>),
               annotationCloudflareOriginRecordHostname, HostOrigin),
      Annotate(Enabled, annotationCloudflareHostnames, <<HostOneLabel, HostA>>),
      Annotate(Enabled, annotationCloudflareHostnames, <<HostNoZone>>),
      Annotate(Enabled, annotationCloudflareHostnames, <<HostLongLabel, HostMaxLabel>>),
      Annotate(Annotate(Enabled, annotationCloudflareHostnames, <<HostA>>),
               annotationCloudflareInternalHostnames, <<HostInternal>>),
      Annotate(Enabled, annotationCloudflareInternalHostnames,
               <<HostInternal, HostInternalB>>) }

\* What the state annotation holds before the controller's first update:
\* nothing, the state of an earlier run (with origin indirection on), or
\* text that is not JSON.
EarlierStates ==
    { NoAnnotations.state,
      jsonMarshal([CloudflareState EXCEPT
          !.Enabled = "true", !.Hostnames = <<HostA>>, !.Proxy = "true",
          !.UseOriginRecord = "true", !.OriginRecordHostname = HostOrigin,
          !.IPAddress = IP2, !.InternalHostnames = <<HostB>>,
          !.InternalIPAddress = IP2]),
      [Unparsable EXCEPT !.parses = FALSE] }

Stored(object, state) ==
    IF state = NoAnnotations.state THEN object
    ELSE [object EXCEPT !.Annotations = Annotate(@, annotationCloudflareState, state)]

Services ==
    { [NoObject EXCEPT !.kind = "service", !.exists = TRUE, !.Annotations = a,
                       !.Type = t.Type, !.Ingress = t.Ingress, !.ClusterIP = t.ClusterIP] :
        a \in Profiles,
        t \in { [Type |-> "LoadBalancer", Ingress |-> <<IP1>>, ClusterIP |-> ClusterIP1],
                [Type |-> "LoadBalancer", Ingress |-> <<>>, ClusterIP |-> ClusterIP1],
                [Type |-> "ClusterIP", Ingress |-> <<IP1>>, ClusterIP |-> ClusterIP1] } }
    \cup { [NoObject EXCEPT !.kind = "service", !.exists = TRUE,
                            !.Annotations = Annotate(Enabled, annotationCloudflareHostnames,
                                                     <<HostA>>),
                            !.Type = "LoadBalancer", !.Ingress = <<InternalLBIP>>,
                            !.ClusterIP = ClusterIP1] }

Ingresses ==
    { [NoObject EXCEPT !.kind = "ingress", !.exists = TRUE, !.Annotations = a,
                       !.Ingress = lb] :
        a \in {x \in Profiles : annotationCloudflareInternalHostnames \notin x.keys},
        lb \in {<<IP1>>, <<>>} }

\* Records the zone holds before the controller's first call.
EarlierRecords ==
    { {},
      {[DNSRecord EXCEPT !.ID = 1, !.Type = "A", !.Name = HostA, !.Content = IP2,
                         !.Proxiable = TRUE, !.Proxied = TRUE, !.ZoneID = "023e105f"]},
      {[DNSRecord EXCEPT !.ID = 1, !.Type = "CNAME", !.Name = HostA,
                         !.Content = <<"old", "example", "com">>,
                         !.Proxiable = TRUE, !.ZoneID = "023e105f"]},
      {[DNSRecord EXCEPT !.ID = 1, !.Type = "A", !.Name = HostOrigin, !.Content = IP2,
                         !.Proxiable = TRUE, !.ZoneID = "023e105f"]},
      {[DNSRecord EXCEPT !.ID = 1, !.Type = "A", !.Name = HostA, !.Content = IP1,
                         !.Proxiable = TRUE, !.ZoneID = "023e105f"],
       [DNSRecord EXCEPT !.ID = 2, !.Type = "A", !.Name = HostA, !.Content = IP2,
                         !.Proxiable = TRUE, !.ZoneID = "023e105f"]} }

\* The changes the orchestration system and its users make to an object.
Changes == {"address", "proxy", "origin", "disable", "hostnames"}

NoChanges == [left |-> 0, kinds |-> {}]

Change(c, object) ==
    CASE c = "address" -> [object EXCEPT !.Ingress = IF @ = <<IP1>> THEN <<IP2>> ELSE <<IP1>>]
      [] c = "proxy" ->
           [object EXCEPT !.Annotations = Annotate(@, annotationCloudflareProxy,
                IF annotationCloudflareProxy \in @.keys /\ @.proxy = "false"
                THEN "true" ELSE "false")]
      [] c = "origin" ->
           [object EXCEPT !.Annotations =
                IF annotationCloudflareUseOriginRecord \in @.keys /\ @.useOriginRecord = "true"
                THEN Annotate(@, annotationCloudflareUseOriginRecord, "false")
                ELSE Annotate(Annotate(@, annotationCloudflareUseOriginRecord, "true"),
                              annotationCloudflareOriginRecordHostname, HostOrigin)]
      [] c = "disable" ->
           [object EXCEPT !.Annotations = Annotate(@, annotationCloudflareDNS,
                IF annotationCloudflareDNS \in @.keys /\ @.dns = "true"
                THEN "false" ELSE "true")]
      [] OTHER ->
           [object EXCEPT !.Annotations = Annotate(@, annotationCloudflareHostnames,
                IF @.hostnames = <<HostA>> THEN <<HostA, HostB>> ELSE <<HostA>>)]

\* The orchestration system stores a changed object and raises a watch event.
Edit(o) ==
    /\ objects[o].exists /\ edits.left > 0
    /\ \E c \in Changes \cap edits.kinds :
         objects' = [objects EXCEPT ![o] =
             [Change(c, @) EXCEPT !.resourceVersion = @ + 1, !.written = FALSE]]
    /\ events' = [events EXCEPT ![o] = "modified"]
    /\ edits' = [edits EXCEPT !.left = @ - 1]
    /\ UNCHANGED <<records, nextID, pass, sweep, waitGroup, faults, deliveries, main, watch, twin,
                   completed>>

\* The object is removed from the store; the watch reports its last state.
Remove(o) ==
    /\ objects[o].exists /\ edits.left > 0 /\ "removal" \in edits.kinds
    /\ objects' = [objects EXCEPT ![o].exists = FALSE]
    /\ events' = [events EXCEPT ![o] = "deleted"]
    /\ edits' = [edits EXCEPT !.left = @ - 1]
    /\ UNCHANGED <<records, nextID, pass, sweep, waitGroup, faults, deliveries, main, watch, twin,
                   completed>>

\* ------------------------------------------------------------ specification

\* The runs explored: the watch alone with failing calls, the watch alone
\* with a changing object, the sweep alone with failing calls, the watch
\* and the sweep together on an object whose address changes, and the watch
\* and the sweep together in a process that is sent the termination signal,
\* and the sweep alone over a service and an ingress with failing calls.
Scenarios ==
    { [run |-> "watch", faults |-> MaxFaults, edits |-> NoChanges,
       deliveries |-> MaxEvents, sweeps |-> 0, signals |-> 0],
      [run |-> "edit", faults |-> 0,
       edits |-> [left |-> MaxEdits, kinds |-> Changes \cup {"removal"}],
       deliveries |-> MaxEvents, sweeps |-> 0, signals |-> 0],
      [run |-> "sweep", faults |-> MaxFaults, edits |-> NoChanges,
       deliveries |-> 0, sweeps |-> MaxSweeps, signals |-> 0],
      [run |-> "race", faults |-> 0,
       edits |-> [left |-> MaxEdits, kinds |-> {"address"}],
       deliveries |-> MaxEvents - 1, sweeps |-> MaxSweeps - 1, signals |-> 0],
      [run |-> "stop", faults |-> 0, edits |-> NoChanges,
       deliveries |-> MaxEvents - 1, sweeps |-> MaxSweeps - 1, signals |-> 1],
      [run |-> "pair", faults |-> MaxFaults, edits |-> NoChanges,
       deliveries |-> 0, sweeps |-> MaxSweeps, signals |-> 0] }

\* The objects of a run.  The sweep alone meets every earlier state
\* annotation; the watch and the sweep together work on one enabled object
\* and an empty zone.
Objects(run) ==
    CASE run = "sweep" ->
           {Stored(x, state) : x \in Services \cup Ingresses, state \in EarlierStates}
      [] run \in {"race", "stop"} ->
           {x \in Services \cup Ingresses :
               /\ x.Ingress = <<IP1>> /\ x.Type # "ClusterIP"
               /\ x.Annotations = Annotate(Annotate(Enabled, annotationCloudflareHostnames,
                                                    <<HostA>>),
                                           annotationCloudflareProxy, "false")}
      [] OTHER -> Services \cup Ingresses

\* The cluster of a run: one object, or a service and an ingress.
Only(object) ==
    [o \in ObjectIds |-> IF (o = "svc") = (object.kind = "service") THEN object ELSE NoObject]

Clusters(run) ==
    IF run = "pair"
    THEN { [svc |-> s, ing |-> i] :
             s \in {x \in Objects("race") : x.kind = "service"},
             i \in {x \in Ingresses :
                      x.Annotations = Annotate(Enabled, annotationCloudflareHostnames,
                                               <<HostA, HostB>>)} }
    ELSE { Only(x) : x \in Objects(run) }

Start(cluster, held, faultsLeft, editsLeft, deliveriesLeft, sweepsLeft, signalsLeft, forever, clock) ==
    /\ objects = cluster
    /\ records = held
    /\ nextID = 3
    /\ pass = [w \in Workers |-> Idle]
    /\ sweep = [pc |-> "listServices", idx |-> 1, items |-> <<>>,
                left |-> sweepsLeft, forever |-> forever, clock |-> clock, sleepTime |-> 0,
                called |-> {}, listed |-> {}, passed |-> {}, failed |-> FALSE,
                before |-> FALSE]
    /\ events = [o \in ObjectIds |-> IF objects[o].exists THEN "added" ELSE "none"]
    /\ waitGroup = 0
    /\ faults = faultsLeft
    /\ edits = editsLeft
    /\ deliveries = deliveriesLeft
    /\ main = [pc |-> "signal", signals |-> signalsLeft]
    /\ watch = [o \in ObjectIds |-> Connecting]
    /\ twin = NoTwin
    /\ completed = [o \in ObjectIds |-> {}]

Init ==
    \E sc \in Scenarios :
    \E cluster \in Clusters(sc.run) :
    \E held \in IF sc.run \in {"race", "stop", "pair"} THEN {{}} ELSE EarlierRecords :
        Start(cluster, held, sc.faults, sc.edits, sc.deliveries, sc.sweeps, sc.signals, FALSE,
              FALSE)

Next ==
    \/ \E w \in Workers :
         \/ getZonesByName(w)
         \/ getDNSRecordsByZoneAndName(w)
         \/ deleteDNSRecordByDNSRecord(w)
         \/ createDNSRecordByZone(w)
         \/ restClientPut(w)
         \/ Update(w)
         \/ Done(w)
    \/ \E o \in ObjectIds :
         \/ AddFunc(o)
         \/ UpdateFunc(o)
         \/ DeleteFunc(o)
    \/ ListServices
    \/ SweepService
    \/ ListIngresses
    \/ SweepIngress
    \/ Sleep
    \/ \E o \in ObjectIds :
         \/ Edit(o)
         \/ Remove(o)
    \/ Signal
    \/ Wait
    \/ Exit

Spec == Init /\ [][Next]_vars

\* The sweep loop on its own, round after round, on an object nobody
\* changes, with every REST call and every object update answered with
\* success.
LiveInit ==
    \E object \in Services \cup Ingresses :
    \E held \in EarlierRecords :
        Start(Only(object), held, 0, NoChanges, 0, 1, 0, TRUE, FALSE)

LiveNext ==
    \/ getZonesByName("poller")
    \/ getDNSRecordsByZoneAndName("poller")
    \/ deleteDNSRecordByDNSRecord("poller")
    \/ createDNSRecordByZone("poller")
    \/ restClientPut("poller")
    \/ Update("poller")
    \/ Done("poller")
    \/ ListServices
    \/ SweepService
    \/ ListIngresses
    \/ SweepIngress
    \/ Sleep

\* The loop of main never blocks: each of its steps is taken in the end.
LiveSpec == LiveInit /\ [][LiveNext]_vars /\ WF_vars(LiveNext)

\* The sweep loop alone, with failing calls, in a run that watches the clock.
ClockInit ==
    \E cluster \in Clusters("pair") \cup {Only(x) : x \in Objects("race")} :
    \E held \in EarlierRecords :
        Start(cluster, held, MaxFaults, NoChanges, 0, MaxSweeps, 0, FALSE, TRUE)

ClockSpec == ClockInit /\ [][LiveNext]_vars

\* -------------------------------------------------- the watch loops alone

\* The two watch loops over a service and an ingress that may change and
\* go, with failing calls.
WatchInit ==
    \E pair \in Clusters("pair") :
    \E cluster \in {Only(pair[o]) : o \in ObjectIds} :
    \E held \in {h \in EarlierRecords : \A r \in h : r.Type = "CNAME"} :
        Start(cluster, held, MaxFaults, [left |-> MaxEdits, kinds |-> {"address", "removal"}],
              MaxEvents - 1, 0, 0, FALSE, FALSE)

WatchLoops ==
    \/ \E o \in ObjectIds :
         \/ WatchConnect(o)
         \/ WatchError(o)
         \/ WatchNext(o)
         \/ WatchDone(o)
         \/ WatchSleep(o)
         \/ Edit(o)
         \/ Remove(o)
    \/ \E w \in {"services", "ingresses"} :
         \/ getZonesByName(w)
         \/ getDNSRecordsByZoneAndName(w)
         \/ deleteDNSRecordByDNSRecord(w)
         \/ createDNSRecordByZone(w)
         \/ restClientPut(w)
         \/ Update(w)

WatchSpec == WatchInit /\ [][WatchLoops]_vars

\* ------------------------------------------- the two reconcile functions

\* makeServiceChanges and makeIngressChanges called one after the other with
\* the same desired and current state, each against the records the provider
\* held before the first call and with as many failing calls.
TwinStates ==
    { [CloudflareState EXCEPT !.Enabled = e, !.Hostnames = h, !.Proxy = x,
                              !.UseOriginRecord = u, !.OriginRecordHostname = n,
                              !.IPAddress = a, !.InternalIPAddress = c] :
        e \in {"true", "false"}, h \in {EmptyList, <<HostA>>, <<HostA, HostB>>},
        x \in {"true", "false"}, u \in {"true", "false"},
        n \in {EmptyString, HostOrigin}, a \in {EmptyString, IP1},
        c \in {EmptyString, ClusterIP1} }

TwinObject(kind) == [NoObject EXCEPT !.kind = kind, !.exists = TRUE]

TwinInit ==
    \E desiredState \in TwinStates :
    \E currentState \in {CloudflareState, desiredState,
                          [desiredState EXCEPT !.IPAddress = IP2]} :
    \E held \in EarlierRecords :
        /\ objects = [svc |-> TwinObject("service"), ing |-> TwinObject("ingress")]
        /\ records = held
        /\ nextID = 3
        /\ pass = [w \in Workers |->
                     IF w = "services"
                     THEN makeChanges("service", TwinObject("service"), "svc", "twin",
                                      desiredState, currentState)
                     ELSE Idle]
        /\ sweep = [pc |-> "listServices", idx |-> 1, items |-> <<>>,
                    left |-> 0, forever |-> FALSE, clock |-> FALSE, sleepTime |-> 0,
                    called |-> {}, listed |-> {}, passed |-> {}, failed |-> FALSE,
                    before |-> FALSE]
        /\ events = [o \in ObjectIds |-> "none"]
        /\ waitGroup = 0
        /\ faults = MaxFaults
        /\ edits = NoChanges
        /\ deliveries = 0
        /\ main = [pc |-> "signal", signals |-> 0]
        /\ watch = [o \in ObjectIds |-> Connecting]
        /\ twin = [held |-> held, desiredState |-> desiredState,
                   currentState |-> currentState, first |-> Idle]
        /\ completed = [o \in ObjectIds |-> {}]

\* The first call has returned: the second is made with the same arguments.
TwinSecond ==
    /\ pass["services"].at.ph = "done" /\ twin.first.mode = "idle"
    /\ twin' = [twin EXCEPT !.first = pass["services"]]
    /\ records' = twin.held
    /\ nextID' = 3
    /\ faults' = MaxFaults
    /\ pass' = [pass EXCEPT
          !["services"] = Idle,
          !["ingresses"] = makeChanges("ingress", objects["ing"], "ing", "twin",
                                       twin.desiredState, twin.currentState)]
    /\ UNCHANGED <<objects, sweep, events, waitGroup, edits, deliveries, main, watch, completed>>

TwinNext ==
    \/ TwinSecond
    \/ \E w \in {"services", "ingresses"} :
         \/ getZonesByName(w)
         \/ getDNSRecordsByZoneAndName(w)
         \/ deleteDNSRecordByDNSRecord(w)
         \/ createDNSRecordByZone(w)
         \/ restClientPut(w)
         \/ Update(w)

TwinSpec == TwinInit /\ [][TwinNext]_vars

\* ------------------------------------------------------ one reconciler

\* The watch handlers alone, on one object that no call has reconciled yet,
\* with failing calls and with changes to the object.
SoloInit ==
    \E cluster \in Clusters("watch") :
    \E held \in {h \in EarlierRecords : \A r \in h : r.Type = "CNAME"} :
        Start(cluster, held, MaxFaults, [left |-> MaxEdits, kinds |-> Changes \cup {"removal"}],
              MaxEvents - 1, 0, 0, FALSE, FALSE)

SoloNext ==
    \/ \E w \in {"services", "ingresses"} :
         \/ getZonesByName(w)
         \/ getDNSRecordsByZoneAndName(w)
         \/ deleteDNSRecordByDNSRecord(w)
         \/ createDNSRecordByZone(w)
         \/ restClientPut(w)
         \/ Update(w)
         \/ Done(w)
    \/ \E o \in ObjectIds :
         \/ AddFunc(o)
         \/ UpdateFunc(o)
         \/ DeleteFunc(o)
         \/ Edit(o)
         \/ Remove(o)

SoloSpec == SoloInit /\ [][SoloNext]_vars

\* ------------------------------------------------------- the client alone

\* The operations of the client called one after another, as its tests call
\* them, against a zone that holds earlier records and with failing calls.
MaxCalls == 2

ClientCalls ==
    { [op |-> "DeleteDNSRecord", type |-> "", name |-> n, content |-> EmptyString] :
        n \in {HostA, HostNoZone} }
    \cup { [op |-> o, type |-> t, name |-> n, content |-> IP1] :
             o \in {"UpdateDNSRecord", "UpsertDNSRecord"}, t \in {"A", "CNAME"},
             n \in {HostA, HostNoZone} }

ClientCall ==
    LET p == pass["poller"] IN
    /\ p.mode = "client" /\ p.op.stage = "none" /\ Len(p.calls) < MaxCalls
    /\ \E c \in ClientCalls :
         pass' = [pass EXCEPT !["poller"] =
                     Call([p EXCEPT !.ret = NoRet], c.op, c.type, c.name, c.content, FALSE)]
    /\ UNCHANGED <<objects, records, nextID, sweep, events, waitGroup, faults, edits, deliveries,
                   main, watch, twin, completed>>

ClientInit ==
    \E held \in EarlierRecords :
        /\ objects = [o \in ObjectIds |-> NoObject]
        /\ records = held
        /\ nextID = 3
        /\ pass = [w \in Workers |->
                     IF w = "poller"
                     THEN [Idle EXCEPT !.mode = "client", !.at = [ph |-> "client", i |-> 0]]
                     ELSE Idle]
        /\ sweep = [pc |-> "listServices", idx |-> 1, items |-> <<>>,
                    left |-> 0, forever |-> FALSE, clock |-> FALSE, sleepTime |-> 0,
                    called |-> {}, listed |-> {}, passed |-> {}, failed |-> FALSE,
                    before |-> FALSE]
        /\ events = [o \in ObjectIds |-> "none"]
        /\ waitGroup = 0
        /\ faults = MaxFaults
        /\ edits = NoChanges
        /\ deliveries = 0
        /\ main = [pc |-> "signal", signals |-> 0]
        /\ watch = [o \in ObjectIds |-> Connecting]
        /\ twin = NoTwin
        /\ completed = [o \in ObjectIds |-> {}]

ClientNext ==
    \/ ClientCall
    \/ getZonesByName("poller")
    \/ getDNSRecordsByZoneAndName("poller")
    \/ deleteDNSRecordByDNSRecord("poller")
    \/ createDNSRecordByZone("poller")
    \/ restClientPut("poller")

ClientSpec == ClientInit /\ [][ClientNext]_vars

\* ------------------------------------------------------------- properties

\* The applied state a call found in the object handed to it.
AppliedState(p) ==
    IF p.kind = "service" THEN getCurrentServiceState(p.given)
    ELSE getCurrentIngressState(p.given)

Reconciling == {w \in Workers : pass[w].mode = "process"}

Failed(call) == call.err \notin {Nil, Pending}

IsPrefix(s, t) == Len(s) <= Len(t) /\ s = SubSeq(t, 1, Len(s))

\* C1: a reconcile pass on an object as the controller's own successful
\* update stored it, unchanged since, makes no provider call and returns
\* "skipped".
C1_SecondPassSkips ==
    \A w \in Reconciling :
        pass[w].given.written =>
            /\ pass[w].calls = <<>>
            /\ pass[w].at.ph = "done"
            /\ pass[w].status = "skipped"
            /\ pass[w].err = Nil

\* A pass has been run on an object a pass before it wrote back, and that
\* object carries hostnames with an address.
C1_Witness ==
    \E w \in Reconciling :
        /\ pass[w].given.written
        /\ externalTarget(pass[w].desiredState)
        /\ pass[w].status = "skipped"
        /\ pass[w].calls = <<>>

\* C3: with enabled "true", hostnames and no address, the only provider
\* calls of a pass are those for the internal hostnames; when that phase
\* does not apply either, the pass returns "skipped" without error, without
\* writing the state annotation and without updating the object.
C3_NoAddressNoCall ==
    \A w \in Reconciling :
        LET p == pass[w]
            d == p.desiredState
            phase2 == /\ p.kind = "service"
                      /\ d.InternalHostnames # EmptyList
                      /\ d.InternalIPAddress # EmptyString
                      /\ \/ d.InternalIPAddress # AppliedState(p).InternalIPAddress
                         \/ d.InternalHostnames # AppliedState(p).InternalHostnames
        IN d.Enabled = "true" /\ d.Hostnames # EmptyList /\ d.IPAddress = EmptyString =>
             /\ \A k \in 1..Len(p.calls) : p.calls[k].phase = "internal"
             /\ ~phase2 =>
                  /\ p.calls = <<>>
                  /\ p.at.ph = "done" /\ p.status = "skipped" /\ p.err = Nil
                  /\ p.writes = 0 /\ p.updates = 0
                  /\ p.object = p.given

\* A service that is not of type LoadBalancer, enabled and with hostnames,
\* has been passed over.
C3_Witness ==
    \E w \in Reconciling :
        /\ pass[w].desiredState.Enabled = "true"
        /\ pass[w].desiredState.Hostnames # EmptyList
        /\ pass[w].desiredState.IPAddress = EmptyString
        /\ pass[w].given.Type = "ClusterIP"
        /\ pass[w].status = "skipped"
        /\ pass[w].updates = 0

\* What a provider call is, apart from its outcome.
Shape(call) ==
    [op |-> call.op, type |-> call.type, name |-> call.name,
     content |-> call.content, proxy |-> call.proxy]

Shapes(calls) == [k \in 1..Len(calls) |-> Shape(calls[k])]

IsExternal(call) == call.phase # "internal"

\* The hostnames a pass takes up: a service leaves out the names with fewer
\* than two labels or an overlong label, an ingress takes them all.
TakenUp(kind, hostnames) ==
    IF kind = "service"
    THEN SelectSeq(hostnames,
                   LAMBDA h : Len(h) >= 2 /\ \A k \in 1..Len(h) : Len(h[k]) <= 63)
    ELSE hostnames

\* The provider calls of the external phase, in the order the claim gives.
Phase1Calls(kind, d) ==
    LET active == d.UseOriginRecord = "true" /\ d.OriginRecordHostname # EmptyString
        names == TakenUp(kind, d.Hostnames)
        flag == d.Proxy = "true"
        upsert(h) == IF active
                     THEN [op |-> "UpsertDNSRecord", type |-> "CNAME", name |-> h,
                           content |-> d.OriginRecordHostname, proxy |-> flag]
                     ELSE [op |-> "UpsertDNSRecord", type |-> "A", name |-> h,
                           content |-> d.IPAddress, proxy |-> flag]
        toggle(h) == [op |-> "UpdateProxySetting", type |-> "", name |-> h,
                      content |-> EmptyString, proxy |-> flag]
    IN (IF active
        THEN <<[op |-> "UpsertDNSRecord", type |-> "A", name |-> d.OriginRecordHostname,
                content |-> d.IPAddress, proxy |-> FALSE]>>
        ELSE <<>>)
       \o [k \in 1..(2 * Len(names)) |->
             IF k % 2 = 1 THEN upsert(names[(k + 1) \div 2]) ELSE toggle(names[k \div 2])]
       \o (IF ~active /\ d.OriginRecordHostname # EmptyString
           THEN <<[op |-> "DeleteDNSRecord", type |-> "", name |-> d.OriginRecordHostname,
                   content |-> EmptyString, proxy |-> FALSE]>>
           ELSE <<>>)

Phase1Applies(p) ==
    LET d == p.desiredState
        a == AppliedState(p)
    IN /\ d.Enabled = "true" /\ d.Hostnames # EmptyList /\ d.IPAddress # EmptyString
       /\ <<d.IPAddress, d.Hostnames, d.Proxy, d.UseOriginRecord, d.OriginRecordHostname>>
          # <<a.IPAddress, a.Hostnames, a.Proxy, a.UseOriginRecord, a.OriginRecordHostname>>

\* C4: in a pass where phase 1 applies the provider calls are made in the
\* order origin upsert, then per hostname upsert and proxy toggle, then
\* origin delete, each only after the one before it succeeded, and the state
\* annotation is written and the object updated only after all of them
\* succeeded.  For a.example.com,b.example.com, proxy "true", 203.0.113.9
\* and no applied state the pass that ends "succeeded" has made upsert(A,a),
\* proxy(a), upsert(A,b), proxy(b) and one object update.
C4_CallOrder ==
    \A w \in Reconciling :
        LET p == pass[w]
            d == p.desiredState
            made == Shapes(SelectSeq(p.calls, IsExternal))
            want == Phase1Calls(p.kind, d)
            A(h) == [op |-> "UpsertDNSRecord", type |-> "A", name |-> h,
                     content |-> IP1, proxy |-> TRUE]
            P(h) == [op |-> "UpdateProxySetting", type |-> "", name |-> h,
                     content |-> EmptyString, proxy |-> TRUE]
        IN Phase1Applies(p) =>
             /\ IsPrefix(made, want)
             /\ \A k \in 1..Len(p.calls) :
                  /\ k < Len(p.calls) => p.calls[k].err = Nil
                  /\ IsExternal(p.calls[k]) =>
                       \A j \in 1..k : IsExternal(p.calls[j])
             /\ p.writes > 0 \/ p.updates > 0 \/ p.at.ph = "update" =>
                  /\ made = want
                  /\ \A k \in 1..Len(p.calls) : p.calls[k].err = Nil
                  /\ p.writes = 1
             /\ p.status = "succeeded" => p.updates = 1
             /\ /\ d.Hostnames = <<HostA, HostB>> /\ d.Proxy = "true" /\ d.IPAddress = IP1
                /\ d.OriginRecordHostname = EmptyString
                /\ AppliedState(p) = CloudflareState
                /\ p.status = "succeeded"
                => made = <<A(HostA), P(HostA), A(HostB), P(HostB)>>

\* The pass of the example has ended "succeeded".
C4_Witness ==
    \E w \in Reconciling :
        /\ pass[w].desiredState.Hostnames = <<HostA, HostB>>
        /\ pass[w].desiredState.Proxy = "true"
        /\ pass[w].desiredState.IPAddress = IP1
        /\ AppliedState(pass[w]) = CloudflareState
        /\ Len(pass[w].calls) = 4
        /\ pass[w].updates = 1
        /\ pass[w].status = "succeeded"

\* C5: a pass that returns "succeeded" has persisted a state annotation that
\* decodes to its desired state, field for field, whichever phase changed.
C5_FullOverwrite ==
    \A w \in Reconciling :
        LET p == pass[w]
            text == p.object.Annotations.state
        IN p.status = "succeeded" =>
             /\ annotationCloudflareState \in p.object.Annotations.keys
             /\ jsonUnmarshal(text).ok
             /\ jsonUnmarshal(text).state = p.desiredState
             /\ objects[p.obj].resourceVersion = p.given.resourceVersion + 1 =>
                  /\ objects[p.obj].Annotations = p.object.Annotations
                  /\ IF p.kind = "service"
                     THEN getCurrentServiceState(objects[p.obj]) = p.desiredState
                     ELSE getCurrentIngressState(objects[p.obj]) = p.desiredState

\* A pass whose external phase alone made calls has succeeded on a service
\* that carried the state of an earlier run: the stored internal fields are
\* those of the desired state, no longer those of the earlier run.
C5_Witness ==
    \E w \in Reconciling :
        LET p == pass[w] IN
        /\ p.status = "succeeded"
        /\ p.kind = "service"
        /\ p.calls # <<>>
        /\ \A k \in 1..Len(p.calls) : IsExternal(p.calls[k])
        /\ AppliedState(p).InternalIPAddress # p.desiredState.InternalIPAddress
        /\ AppliedState(p).InternalHostnames # p.desiredState.InternalHostnames
        /\ getCurrentServiceState(objects[p.obj]) = p.desiredState

\* C6: a pass in which a provider operation returned an error returns
\* "failed" with that error at once, writes no state annotation and makes no
\* object update: the stored object is as it was handed in unless somebody
\* else changed it.
C6_FailureKeepsState ==
    \A w \in Reconciling :
        LET p == pass[w] IN
        (\E k \in 1..Len(p.calls) : Failed(p.calls[k])) =>
            /\ Failed(Last(p.calls))
            /\ \A k \in 1..(Len(p.calls) - 1) : p.calls[k].err = Nil
            /\ p.at.ph = "done"
            /\ p.status = "failed"
            /\ p.err = Last(p.calls).err
            /\ p.writes = 0 /\ p.updates = 0
            /\ p.object = p.given
            /\ objects[p.obj].resourceVersion = p.given.resourceVersion =>
                 [objects[p.obj] EXCEPT !.exists = TRUE] = p.given

\* A REST call of the second hostname's operations failed after the first
\* hostname's record was created, and the store still holds no state.
C6_Witness ==
    \E w \in Reconciling :
        LET p == pass[w] IN
        /\ Len(p.calls) >= 3
        /\ Last(p.calls).err = "rest"
        /\ p.status = "failed"
        /\ annotationCloudflareState \notin objects[p.obj].Annotations.keys
        /\ records # {}

\* C2: nothing done for an object whose enable annotation is absent or not
\* "true" makes a provider call: not a reconcile pass started by the watch
\* or the sweep, and not the handling of its deletion.
C2_DisabledNoCall ==
    \A w \in Workers :
        pass[w].mode # "idle" /\ pass[w].desiredState.Enabled # "true" =>
            pass[w].calls = <<>>

IsLookup(rest) == rest.verb = "GET dns_records" /\ rest.ok

IsChange(rest) == rest.verb \in {"DELETE", "POST", "PUT"}

Verbs(rests) == [k \in 1..Len(rests) |-> rests[k].verb]

Answered(call) == call.err # Pending /\ \A k \in 1..Len(call.rests) : call.rests[k].ok

DesiredState(object) ==
    IF object.kind = "service" THEN getDesiredServiceState(object)
    ELSE getDesiredIngressState(object)

StoredState(object) ==
    IF object.kind = "service" THEN getCurrentServiceState(object)
    ELSE getCurrentIngressState(object)

Phase1Fields(state) ==
    <<state.IPAddress, state.Hostnames, state.Proxy, state.UseOriginRecord,
      state.OriginRecordHostname>>

Phase2Fields(state) == <<state.InternalIPAddress, state.InternalHostnames>>

Phase1Guard(d) ==
    d.Enabled = "true" /\ d.Hostnames # EmptyList /\ d.IPAddress # EmptyString

Phase2Guard(d) ==
    d.Enabled = "true" /\ d.InternalHostnames # EmptyList /\ d.InternalIPAddress # EmptyString

Range(s) == {s[k] : k \in 1..Len(s)}

\* The record the desired state asks for under hostname h.
Required(d, h, r) ==
    /\ r.Name = h
    /\ IF d.UseOriginRecord = "true" /\ d.OriginRecordHostname # EmptyString
       THEN r.Type = "CNAME" /\ r.Content = d.OriginRecordHostname
       ELSE r.Type = "A" /\ r.Content = d.IPAddress

\* C7: on an object that no longer changes, with every REST call and every
\* object update answered with success and the sweep loop going round, the
\* stored applied state comes to equal the desired state on the fields of
\* every phase whose guard holds, and from then on every pass is skipped
\* without a provider call.  Stated for objects all of whose names have two
\* labels or more and lie in a zone of the account that holds at most one
\* record per name.
C7_Converges ==
    (\A o \in ObjectIds :
        LET d == DesiredState(objects[o])
            names == Range(d.Hostnames) \cup Range(d.InternalHostnames)
                     \cup {d.OriginRecordHostname}
        IN /\ \A h \in names \ {EmptyString} :
                Len(h) >= 2 /\ \E z \in Zones : z.Name = SubSeq(h, Len(h) - 1, Len(h))
           /\ \A r1, r2 \in records : r1.Name = r2.Name => r1 = r2)
    => <>[](\A o \in ObjectIds :
              LET d == DesiredState(objects[o])
                  a == StoredState(objects[o])
              IN objects[o].exists =>
                   /\ Phase1Guard(d) => Phase1Fields(a) = Phase1Fields(d)
                   /\ Phase2Guard(d) => Phase2Fields(a) = Phase2Fields(d)
                   /\ \A w \in Reconciling :
                        pass[w].obj = o =>
                            pass[w].calls = <<>> /\ pass[w].status = "skipped")

\* C8: whenever no call on an object is in flight, the guard of phase 1
\* holds for it and its stored applied state equals its desired state on
\* the fields of phase 1, the zone holds for each hostname the object's
\* passes take up a record of the required type and content.
C8_AppliedStateIsLive ==
    \A o \in ObjectIds :
        LET d == DesiredState(objects[o])
            a == StoredState(objects[o])
        IN /\ objects[o].exists
           /\ \A w \in Workers : pass[w].mode = "idle"
           /\ Phase1Guard(d)
           /\ Phase1Fields(a) = Phase1Fields(d)
           => \A h \in Range(TakenUp(objects[o].kind, d.Hostnames)) :
                \E r \in records : Required(d, h, r)

\* C9: while a pass started by the watch and a pass of the sweep work on
\* one object with one desired state, the zone never holds two records of
\* one name, and once both have returned without a failed call it holds
\* for each hostname the one record a single pass leaves.
C9_ConcurrentPassesAgree ==
    \A w1, w2 \in Reconciling :
        LET d == pass[w1].desiredState IN
        /\ w1 # w2
        /\ pass[w1].obj = pass[w2].obj
        /\ pass[w2].desiredState = d
        /\ Phase1Guard(d)
        => /\ \A r1, r2 \in records : r1.Name = r2.Name => r1 = r2
           /\ /\ pass[w1].at.ph = "done" /\ pass[w2].at.ph = "done"
              /\ \A w \in {w1, w2} : \A k \in 1..Len(pass[w].calls) :
                    pass[w].calls[k].err = Nil
              => \A h \in Range(TakenUp(pass[w1].kind, d.Hostnames)) :
                    Cardinality({r \in records : Required(d, h, r)}) = 1

IsZoneLookup(rest) == rest.verb = "GET zones"

\* The last j labels of a name.
Suffix(name, j) == [i \in 1..j |-> name[Len(name) - j + i]]

\* Whether the provider holds a zone named by the last j labels of a name.
HoldsZone(name, j) == \E z \in Zones : z.Name = Suffix(name, j)

C12_TooFewPartsNoRest ==
    \A w \in Workers : \A k \in 1..Len(pass[w].calls) :
        LET call == pass[w].calls[k] IN
        Len(call.name) < 2 =>
            /\ call.rests = <<>>
            /\ call.err = "too few parts"
            /\ k = Len(pass[w].calls) => pass[w].op.stage # "zones"

\* An operation on the single-label name of an object has returned the
\* error, and the operation on the object's next name has gone to the
\* provider.
C12_Witness ==
    \E w \in Workers : \E k \in 1..Len(pass[w].calls) :
        /\ pass[w].calls[k].name = HostOneLabel
        /\ pass[w].calls[k].err = "too few parts"
        /\ pass[w].calls[k].rests = <<>>
        /\ k < Len(pass[w].calls)
        /\ Last(pass[w].calls).rests # <<>>

\* What the claims ask of a hostname: two labels or more, none longer than
\* 63 (the length of a label is what Go's len gives; the names met here are
\* ASCII).
WellFormed(h) == Len(h) >= 2 /\ \A k \in 1..Len(h) : Len(h[k]) <= 63

\* C13: validateHostname(h) is true exactly when h has two labels or more
\* and no label longer than 63: "a" is turned down, a name with a label of
\* 64 is turned down, one with a label of 63 and "sub.example.com" pass; the
\* hostname loop of a service goes to the provider for the names that pass
\* and for no other.
C13_ValidateHostname ==
    /\ ~validateHostname(<<"a">>)
    /\ validateHostname(<<"sub", "example", "com">>)
    /\ ~validateHostname(HostLongLabel)
    /\ validateHostname(HostMaxLabel)
    /\ \A o \in ObjectIds :
         \A h \in Range(DesiredState(objects[o]).Hostnames) :
            validateHostname(h) <=> WellFormed(h)
    /\ \A w \in Reconciling :
         pass[w].kind = "service" =>
            \A k \in 1..Len(pass[w].calls) :
               pass[w].calls[k].phase \in {"hostname", "proxy"} =>
                  WellFormed(pass[w].calls[k].name)

\* The hostname loop of a service has passed over the name with the label
\* of 64 and has taken the name with the label of 63 to the provider.
C13_Witness ==
    \E w \in Reconciling :
        /\ pass[w].kind = "service"
        /\ pass[w].desiredState.Hostnames = <<HostLongLabel, HostMaxLabel>>
        /\ pass[w].calls # <<>>
        /\ pass[w].calls[1].name = HostMaxLabel
        /\ pass[w].calls[1].phase = "hostname"

\* C14: in a reconcile pass of a service or of an ingress no provider
\* operation is called for a hostname that fails validation, and the pass
\* does not fail over such a hostname: it goes on to the names that follow.
C14_InvalidHostnameSkipped ==
    \A w \in Reconciling :
        LET p == pass[w] IN
        /\ \A k \in 1..Len(p.calls) :
              p.calls[k].phase \in {"hostname", "proxy"} => WellFormed(p.calls[k].name)
        /\ p.at.ph = "done" /\ p.status = "failed" /\ p.calls # <<>> =>
              ~(Last(p.calls).phase \in {"hostname", "proxy"}
                /\ ~WellFormed(Last(p.calls).name))

Deleting == {w \in Workers : pass[w].mode = "delete"}

\* C15: the handling of a delete event calls DeleteDNSRecordIfMatching for
\* every hostname of the object, in the order of the list, whether or not
\* the calls before it failed, and returns "deleted" when at least one of
\* the calls succeeded and "failed" when none did.
C15_DeleteGoesOn ==
    \A w \in Deleting :
        LET p == pass[w]
            hostnames == p.desiredState.Hostnames
        IN /\ Len(p.calls) <= Len(hostnames)
           /\ \A k \in 1..Len(p.calls) :
                 /\ p.calls[k].op = "DeleteDNSRecordIfMatching"
                 /\ p.calls[k].name = hostnames[k]
                 /\ k < Len(p.calls) => p.calls[k].err # Pending
           /\ p.at.ph = "done" =>
                 /\ Len(p.calls) = Len(hostnames)
                 /\ \A k \in 1..Len(p.calls) : p.calls[k].err # Pending
                 /\ p.status = IF \E k \in 1..Len(p.calls) : p.calls[k].err = Nil
                               THEN "deleted" ELSE "failed"

\* The deletion for the first of two hostnames has failed, the deletion for
\* the second has removed its record, and "deleted" is returned.
C15_Witness ==
    \E w \in Deleting :
        /\ pass[w].at.ph = "done"
        /\ Len(pass[w].calls) = 2
        /\ Failed(pass[w].calls[1])
        /\ pass[w].calls[2].err = Nil
        /\ pass[w].status = "deleted"
        /\ \A r \in records : r.Name # pass[w].calls[2].name

\* C16: the handling of a delete event asks for each hostname's record to
\* be deleted with the type and content the reconciler applies for it: A
\* and the address without origin indirection, CNAME and the origin
\* hostname with it; so once the handling of the deletion of an object whose
\* stored state a pass wrote has returned with every REST call answered
\* with success, the zone holds no record of that type and content for a
\* hostname of the object.
C16_DeleteWhatWasApplied ==
    \A w \in Deleting :
        LET p == pass[w]
            d == p.desiredState
        IN /\ \A k \in 1..Len(p.calls) :
                 IF d.UseOriginRecord = "true" /\ d.OriginRecordHostname # EmptyString
                 THEN p.calls[k].type = "CNAME"
                      /\ p.calls[k].content = d.OriginRecordHostname
                 ELSE p.calls[k].type = "A" /\ p.calls[k].content = d.IPAddress
           /\ /\ p.at.ph = "done"
              /\ p.given.written
              /\ \A k \in 1..Len(p.calls) : Answered(p.calls[k])
              => \A h \in Range(d.Hostnames) : \A r \in records : ~Required(d, h, r)

\* C17: DeleteDNSRecordIfMatching sends a DELETE only for the record its
\* lookup found by that name, and only when that record has the given type
\* and the given content; when the lookup found no record, or one of
\* another type or content, it returns an error and sends no request that
\* changes the provider's records.
C17_DeleteOnlyIfMatching ==
    \A w \in Workers : \A k \in 1..Len(pass[w].calls) :
        LET call == pass[w].calls[k]
            lookups == SelectSeq(call.rests, IsLookup)
            changes == SelectSeq(call.rests, IsChange)
            found == lookups[1]
        IN call.op = "DeleteDNSRecordIfMatching" =>
             /\ Len(lookups) <= 1
             /\ changes # <<>> =>
                  /\ lookups # <<>>
                  /\ found.count >= 1
                  /\ found.first.Type = call.type
                  /\ found.first.Content = call.content
                  /\ Verbs(changes) = <<"DELETE">>
                  /\ changes[1].arg = found.first
             /\ /\ lookups # <<>>
                /\ \/ found.count = 0
                   \/ found.first.Type # call.type
                   \/ found.first.Content # call.content
                => changes = <<>> /\ Failed(call)
             /\ call.err = Nil => changes # <<>> /\ changes[1].ok

\* The lookup found a record of the given type with another content: the
\* operation returned its error and the provider still holds the record.
C17_Witness ==
    \E w \in Workers : \E k \in 1..Len(pass[w].calls) :
        LET call == pass[w].calls[k]
            lookups == SelectSeq(call.rests, IsLookup)
        IN /\ call.op = "DeleteDNSRecordIfMatching"
           /\ lookups # <<>>
           /\ lookups[1].count = 1
           /\ lookups[1].first.Type = call.type
           /\ lookups[1].first.Content # call.content
           /\ call.err = "type or content does not match"
           /\ lookups[1].first \in records

\* C18: in a pass where phase 1 applies and origin indirection is not
\* active, once the pass has come to write the state annotation an origin
\* hostname named by the applied or by the desired state has had its record
\* deleted by a DeleteDNSRecord call; with origin indirection active no
\* DeleteDNSRecord call is made.
C18_ObsoleteOriginDeleted ==
    \A w \in Reconciling :
        LET p == pass[w]
            d == p.desiredState
            a == AppliedState(p)
            active == d.UseOriginRecord = "true" /\ d.OriginRecordHostname # EmptyString
            deletions == {p.calls[k] : k \in {j \in 1..Len(p.calls) :
                                                p.calls[j].op = "DeleteDNSRecord"}}
        IN Phase1Applies(p) =>
             /\ active => deletions = {}
             /\ ~active /\ p.writes > 0 =>
                  \A h \in {a.OriginRecordHostname, d.OriginRecordHostname} \ {EmptyString} :
                     \E call \in deletions : call.name = h /\ call.err = Nil

\* C19: a pass on a service for which the guards of both phases hold and
\* both record sets differ from the applied state has, when it returns,
\* called the upsert of every internal hostname, whatever the provider
\* answered in phase 1.
C19_Phase2Independent ==
    \A w \in Reconciling :
        LET p == pass[w]
            d == p.desiredState
        IN /\ p.kind = "service"
           /\ Phase1Applies(p)
           /\ Phase2Guard(d)
           /\ Phase2Fields(d) # Phase2Fields(AppliedState(p))
           /\ p.at.ph = "done"
           => \A h \in Range(d.InternalHostnames) :
                \E k \in 1..Len(p.calls) :
                   /\ p.calls[k].phase = "internal"
                   /\ p.calls[k].op = "UpsertDNSRecord"
                   /\ p.calls[k].name = h

\* The stored object b is the stored object a but for the state annotation
\* (and the version the store keeps).
SameButState(a, b) ==
    /\ [b EXCEPT !.Annotations.state = a.Annotations.state,
                 !.Annotations.keys = a.Annotations.keys,
                 !.resourceVersion = a.resourceVersion,
                 !.written = a.written] = a
    /\ b.Annotations.keys \ {annotationCloudflareState}
         = a.Annotations.keys \ {annotationCloudflareState}

\* C20: every step that changes a stored object and is not a change by the
\* orchestration system leaves every field and every annotation of the
\* object other than the state annotation as it was stored, also when the
\* pass works from a snapshot older than the stored version: what the
\* orchestration system last wrote stays.
C20_OnlyStateAnnotation ==
    [][\A o \in ObjectIds :
          edits' = edits /\ objects'[o] # objects[o] =>
             SameButState(objects[o], objects'[o])]_vars

\* A pass of the sweep on a snapshot older than the stored object has sent
\* its update, and the address the orchestration system wrote since is
\* still the stored one.
C20_Witness ==
    \E w \in Reconciling :
        LET p == pass[w] IN
        /\ p.initiator = "poller"
        /\ p.at.ph = "done"
        /\ p.updates = 1
        /\ p.given.resourceVersion < objects[p.obj].resourceVersion
        /\ p.given.Ingress # objects[p.obj].Ingress
        /\ ~objects[p.obj].written

\* C21: a pass reads the zero state as applied state when the object handed
\* in has no state annotation or one that does not parse, and runs on as
\* for any other applied state; decoding the encoding of a state gives that
\* state again, so a pass handed the object a pass before it committed
\* reads as applied state the state that pass encoded.
C21_StateRoundTrip ==
    /\ \A o \in ObjectIds :
          LET d == DesiredState(objects[o]) IN
          jsonUnmarshal(jsonMarshal(d)) = [ok |-> TRUE, state |-> d]
    /\ jsonUnmarshal(jsonMarshal(CloudflareState)) = [ok |-> TRUE, state |-> CloudflareState]
    /\ \A w \in Reconciling :
          LET p == pass[w]
              a == p.given.Annotations
          IN /\ p.writes > 0 =>
                  jsonUnmarshal(p.object.Annotations.state)
                     = [ok |-> TRUE, state |-> p.desiredState]
             /\ p.writes = 0 =>
                  p.currentState =
                     IF annotationCloudflareState \notin a.keys \/ ~a.state.parses
                     THEN CloudflareState
                     ELSE a.state.val
             /\ p.err # Nil => p.calls # <<>> \/ p.updates > 0

\* A pass has been handed a service as the pass before it stored it, with
\* a state that has a cluster address and no internal hostnames, and has
\* read that state back whole.
C21_Witness ==
    \E w \in Reconciling :
        LET p == pass[w] IN
        /\ p.given.written
        /\ "internalHostnames" \notin p.given.Annotations.state.keys
        /\ "internalIpAddress" \in p.given.Annotations.state.keys
        /\ p.currentState = p.desiredState
        /\ p.desiredState.Hostnames # EmptyList
        /\ p.at.ph = "done"

\* C22: the desired state of a service is read off the object alone: each
\* annotation's value when the annotation is present and else enabled
\* "false", hostnames "", internal hostnames "", proxy "true", use origin
\* record "false", origin record hostname ""; the address is the first
\* load-balancer address when the type is LoadBalancer and there is one, and
\* empty otherwise; the internal address is the cluster IP.
C22_DesiredServiceState ==
    \A w \in Workers :
        LET p == pass[w]
            service == p.given
            a == service.Annotations
            d == p.desiredState
            value(key, v, default) == IF key \in a.keys THEN v ELSE default
        IN p.kind = "service" =>
             /\ d.Enabled = value(annotationCloudflareDNS, a.dns, "false")
             /\ d.Hostnames = value(annotationCloudflareHostnames, a.hostnames, <<<<"">>>>)
             /\ d.InternalHostnames
                  = value(annotationCloudflareInternalHostnames, a.internalHostnames, <<<<"">>>>)
             /\ d.Proxy = value(annotationCloudflareProxy, a.proxy, "true")
             /\ d.UseOriginRecord
                  = value(annotationCloudflareUseOriginRecord, a.useOriginRecord, "false")
             /\ d.OriginRecordHostname
                  = value(annotationCloudflareOriginRecordHostname, a.originRecordHostname, <<"">>)
             /\ d.IPAddress = IF service.Type = "LoadBalancer" /\ service.Ingress # <<>>
                              THEN Head(service.Ingress) ELSE <<"">>
             /\ d.InternalIPAddress = service.ClusterIP
             /\ \A v \in Workers :
                  pass[v].kind = "service" /\ pass[v].given = service =>
                     pass[v].desiredState = d

\* A service that is not of type LoadBalancer, with a load-balancer address
\* and without the enable and proxy annotations, has been read: no address,
\* enabled "false", proxy "true", the cluster IP as internal address.
C22_Witness ==
    \E w \in Workers :
        LET p == pass[w] IN
        /\ p.kind = "service"
        /\ p.given.Type = "ClusterIP"
        /\ p.given.Ingress # <<>>
        /\ p.given.Annotations.keys = {annotationCloudflareHostnames}
        /\ p.desiredState.IPAddress = EmptyString
        /\ p.desiredState.Enabled = "false"
        /\ p.desiredState.Proxy = "true"
        /\ p.desiredState.InternalIPAddress = ClusterIP1

\* C23: UpdateProxySetting sends a PUT only when its lookup found exactly
\* one record by that name and that record is proxiable, and the PUT is the
\* record with the proxied flag at the requested value; when the record
\* found is not proxiable it sends no PUT and returns without error; when
\* the lookup found no record or more than one it returns an error and
\* sends no PUT.
C23_ProxyOnlyIfProxiable ==
    \A w \in Workers : \A k \in 1..Len(pass[w].calls) :
        LET call == pass[w].calls[k]
            lookups == SelectSeq(call.rests, IsLookup)
            changes == SelectSeq(call.rests, IsChange)
            found == lookups[1]
        IN call.op = "UpdateProxySetting" =>
             /\ Len(lookups) <= 1
             /\ changes # <<>> =>
                  /\ lookups # <<>>
                  /\ found.count = 1
                  /\ found.first.Proxiable
                  /\ Verbs(changes) = <<"PUT">>
                  /\ changes[1].arg = [found.first EXCEPT !.Proxied = call.proxy]
                  /\ call.err = Nil <=> changes[1].ok
             /\ lookups # <<>> /\ found.count = 1 /\ ~found.first.Proxiable =>
                  changes = <<>> /\ call.err = Nil
             /\ lookups # <<>> /\ found.count # 1 =>
                  changes = <<>> /\ Failed(call)
             /\ /\ lookups # <<>> /\ found.count = 1 /\ found.first.Proxiable
                /\ call.err # Pending
                => changes # <<>>

\* The record found is not proxiable: the operation has returned without
\* error and without a PUT, and the provider holds the record as it was.
C23_Witness ==
    \E w \in Workers : \E k \in 1..Len(pass[w].calls) :
        LET call == pass[w].calls[k]
            lookups == SelectSeq(call.rests, IsLookup)
        IN /\ call.op = "UpdateProxySetting"
           /\ call.proxy
           /\ lookups # <<>>
           /\ lookups[1].count = 1
           /\ ~lookups[1].first.Proxiable
           /\ call.err = Nil
           /\ SelectSeq(call.rests, IsChange) = <<>>
           /\ lookups[1].first \in records

\* C24: a pass that has sent its object update has had every provider call
\* succeed; it returns "succeeded" only when the store took the update, and
\* when the update failed it returns "failed" with the update's error, the
\* store holds no state of this pass, and the pass has made no provider call
\* to undo its work: a record it created or changed is still held.
C24_UpdateFailureFailsPass ==
    \A w \in Reconciling :
        LET p == pass[w]
            stored == objects[p.obj]
        IN p.updates > 0 =>
             /\ p.updates = 1 /\ p.at.ph = "done"
             /\ \A k \in 1..Len(p.calls) : p.calls[k].err = Nil
             /\ \/ /\ p.status = "succeeded" /\ p.err = Nil
                   /\ stored.resourceVersion > p.given.resourceVersion
                \/ /\ p.status = "failed" /\ p.err = "update failed"
                   /\ stored.resourceVersion = p.given.resourceVersion =>
                         [stored EXCEPT !.exists = TRUE] = p.given
                   /\ \A k \in 1..Len(p.calls) :
                         /\ p.calls[k].op = "UpsertDNSRecord"
                         /\ \E j \in 1..Len(p.calls[k].rests) :
                               IsChange(p.calls[k].rests[j])
                         => \E r \in records : r.Name = p.calls[k].name

\* Every provider call of a pass succeeded and created a record, the object
\* update failed: the pass is "failed", the record is there and the stored
\* object has no state annotation.
C24_Witness ==
    \E w \in Reconciling :
        LET p == pass[w] IN
        /\ p.updates = 1
        /\ p.status = "failed"
        /\ p.err = "update failed"
        /\ p.calls # <<>>
        /\ \E r \in records : r.ID >= 3 /\ r.Name = p.calls[1].name
        /\ annotationCloudflareState \notin objects[p.obj].Annotations.keys
        /\ objects[p.obj].resourceVersion = p.given.resourceVersion

\* C25: when a REST call of a provider-client operation reports failure the
\* operation returns an error there and then: the failed call is the last
\* REST call of the operation; and no operation sends the same request
\* twice.
C25_FailFastNoRetry ==
    \A w \in Workers : \A k \in 1..Len(pass[w].calls) :
        LET call == pass[w].calls[k]
            rests == call.rests
        IN /\ \A j \in 1..Len(rests) :
                ~rests[j].ok => j = Len(rests) /\ Failed(call)
           /\ \A i, j \in 1..Len(rests) :
                i # j => <<rests[i].verb, rests[i].arg>> # <<rests[j].verb, rests[j].arg>>
           /\ call.err = Nil => \A j \in 1..Len(rests) : rests[j].ok
           /\ k < Len(pass[w].calls) => call.err # Pending
           /\ Failed(call) /\ k = Len(pass[w].calls) => pass[w].op.stage = "none"

\* The request that changes a record, sent after the lookups succeeded,
\* has failed, and the operation has returned the error.
C25_Witness ==
    \E w \in Workers : \E k \in 1..Len(pass[w].calls) :
        LET call == pass[w].calls[k] IN
        /\ Len(call.rests) >= 3
        /\ IsChange(Last(call.rests))
        /\ ~Last(call.rests).ok
        /\ call.err = "rest"
        /\ pass[w].op.stage = "none"

\* C26: the process ends only with the work-in-progress counter at zero,
\* the counter counts the reconcile and delete calls in flight, and when the
\* process has ended no call is left unfinished, whether it was started
\* before or after the termination signal.
C26_DrainBeforeExit ==
    /\ waitGroup = Cardinality({w \in Workers : pass[w].mode # "idle"})
    /\ main.pc = "exited" =>
          /\ waitGroup = 0
          /\ \A w \in Workers : pass[w].mode = "idle"

\* The sweep loop has finished its two loops and is about to sleep.
AtSleep ==
    /\ sweep.pc = "ingresses" /\ sweep.idx > Len(sweep.items)
    /\ pass["poller"].mode = "idle"

\* C27: a failed pass or a failed list call never stops the sweep loop.
\* When the loop comes to its sleep both list calls were made and every
\* stored object whose list call succeeded was given its pass, whatever
\* failed before it; from there the loop sleeps, and after the sleep it
\* lists the services again.
C27_SweepGoesOn ==
    /\ AtSleep =>
          /\ sweep.called = {"service", "ingress"}
          /\ \A o \in ObjectIds :
                objects[o].exists /\ objects[o].kind \in sweep.listed => o \in sweep.passed
          /\ main.pc # "exited" => ENABLED Sleep
    /\ sweep.pc = "services" /\ sweep.idx > Len(sweep.items) /\ pass["poller"].mode = "idle"
          /\ main.pc # "exited"
       => ENABLED ListIngresses
    /\ sweep.pc = "listServices" /\ sweep.left > 0 /\ main.pc # "exited"
       => ENABLED ListServices

\* The service's pass has failed and the ingress is given its pass in the
\* same sweep.
C27_Witness ==
    /\ sweep.failed /\ sweep.listed = {"service", "ingress"}
    /\ pass["poller"].mode # "idle" /\ pass["poller"].obj = "ing"
    /\ objects["svc"].exists

DocumentedBase == 300

\* C29: between two sweeps the loop sleeps a jittered interval around a
\* base of 300 seconds, within a quarter of it on either side.
C29_SweepEvery300 ==
    sweep.pc = "listServices" /\ sweep.left < MaxSweeps =>
        /\ 4 * sweep.sleepTime >= 3 * DocumentedBase
        /\ 4 * sweep.sleepTime <= 5 * DocumentedBase

\* C30: UpsertDNSRecord returns an error when its lookups succeed and find
\* one record of that name whose type is not the requested one.
C30_OtherTypeIsError ==
    \A w \in Workers : \A k \in 1..Len(pass[w].calls) :
        LET call == pass[w].calls[k]
            lookups == SelectSeq(call.rests, IsLookup)
        IN /\ call.op = "UpsertDNSRecord" /\ call.err # Pending
           /\ lookups # <<>>
           /\ lookups[1].count = 1 /\ lookups[1].first.Type # call.type
           => call.err # Nil

\* The calls the client has been asked to make, in order.
ClientLog == pass["poller"].calls

Lookups(call) == SelectSeq(call.rests, IsLookup)

Mutations(call) == SelectSeq(call.rests, IsChange)

\* DeleteDNSRecord and UpdateDNSRecord refuse, without a mutating request,
\* a name for which no zone resolves or no record exists, and
\* UpdateDNSRecord refuses a record of another type.
RefusedWithoutMutation ==
    \A k \in 1..Len(ClientLog) :
        LET call == ClientLog[k]
            looked == \E j \in 1..Len(call.rests) : call.rests[j].verb = "GET dns_records"
        IN call.op \in {"DeleteDNSRecord", "UpdateDNSRecord"} =>
             /\ call.err # Pending /\ ~looked =>
                  call.err # Nil /\ Mutations(call) = <<>>
             /\ Lookups(call) # <<>> /\ Lookups(call)[1].count = 0 =>
                  call.err # Nil /\ Mutations(call) = <<>>
             /\ call.op = "UpdateDNSRecord" /\ Lookups(call) # <<>>
                   /\ Lookups(call)[1].count >= 1
                   /\ Lookups(call)[1].first.Type # call.type =>
                  call.err # Nil /\ Mutations(call) = <<>>

\* A DeleteDNSRecord that follows a successful DeleteDNSRecord of the same
\* name, the first having found `found` records, returns an error.
RepeatedDeleteFails(found) ==
    \A k \in 1..(Len(ClientLog) - 1) :
        LET first == ClientLog[k]
            second == ClientLog[k + 1]
        IN /\ first.op = "DeleteDNSRecord" /\ second.op = "DeleteDNSRecord"
           /\ first.name = second.name
           /\ first.err = Nil /\ Lookups(first)[1].count \in found
           /\ second.err # Pending
           => second.err # Nil /\ Mutations(second) = <<>>

\* C31 as stated: DeleteDNSRecord and UpdateDNSRecord return an error and
\* send no mutating request when no zone resolves for the name or no record
\* exists by it, UpdateDNSRecord also when the record found is of another
\* type; and a DeleteDNSRecord repeated after one that succeeded returns an
\* error.
C31_DeleteNotRepeatable ==
    RefusedWithoutMutation /\ RepeatedDeleteFails(1..3)

\* C31 amended: the same, the repeated DeleteDNSRecord returning an error
\* when the first one found a single record by the name.
C31_DeleteOfOnlyRecordNotRepeatable ==
    RefusedWithoutMutation /\ RepeatedDeleteFails({1})

\* The only record of a name was deleted, and the same DeleteDNSRecord
\* called again has returned an error without a DELETE.
C31_Witness ==
    /\ Len(ClientLog) = 2
    /\ ClientLog[1].op = "DeleteDNSRecord" /\ ClientLog[1].err = Nil
    /\ Lookups(ClientLog[1])[1].count = 1
    /\ ClientLog[2].op = "DeleteDNSRecord" /\ ClientLog[2].name = ClientLog[1].name
    /\ ClientLog[2].err = "no matching dns record"
    /\ Mutations(ClientLog[2]) = <<>>

\* C32: in a reconcile pass the first provider operation that fails ends
\* the pass at once: it is the last operation the pass calls, no hostname
\* later in the list and no origin delete follows it, the pass writes and
\* updates nothing, and it returns the operation's error.
C32_FirstFailureEndsPass ==
    \A w \in Workers :
        LET p == pass[w] IN
        p.mode = "process" =>
          \A k \in 1..Len(p.calls) :
              p.calls[k].err \notin {Nil, Pending} =>
                /\ k = Len(p.calls)
                /\ p.at.ph = "done" /\ p.op.stage = "none"
                /\ p.status = "failed" /\ p.err = p.calls[k].err
                /\ p.writes = 0 /\ p.updates = 0

\* An operation for the first of two hostnames has failed on a REST call
\* and the pass has returned without a call for the second.
C32_Witness ==
    \E w \in Workers :
        LET p == pass[w] IN
        /\ p.mode = "process" /\ p.at.ph = "done"
        /\ Len(p.desiredState.Hostnames) = 2
        /\ p.calls # <<>> /\ Last(p.calls).err = "rest"
        /\ \A k \in 1..Len(p.calls) : p.calls[k].name = p.desiredState.Hostnames[1]
        /\ p.err = "rest"

\* The calls a pass has made in the phase for the internal hostnames.
InternalCalls(p) == SelectSeq(p.calls, LAMBDA call : call.phase = "internal")

\* C33: the phase for the internal hostnames runs only when enabled is
\* "true", the internal hostnames and the internal address are not empty and
\* one of these two differs from the applied state; it calls
\* UpsertDNSRecord("A", host, internal address, not proxied) for the
\* internal hostnames in list order and nothing else, stops at the first
\* upsert that fails, and a pass that goes on past it has upserted them all.
C33_InternalPhase ==
    \A w \in Workers :
        LET p == pass[w]
            d == p.desiredState
            a == AppliedState(p)
            calls == InternalCalls(p)
        IN p.mode = "process" =>
             /\ calls # <<>> =>
                  /\ p.kind = "service"
                  /\ d.Enabled = "true" /\ d.InternalHostnames # EmptyList
                  /\ d.InternalIPAddress # EmptyString
                  /\ \/ d.InternalIPAddress # a.InternalIPAddress
                     \/ d.InternalHostnames # a.InternalHostnames
             /\ Len(calls) <= Len(d.InternalHostnames)
             /\ \A k \in 1..Len(calls) :
                  /\ calls[k].op = "UpsertDNSRecord" /\ calls[k].type = "A"
                  /\ calls[k].name = d.InternalHostnames[k]
                  /\ calls[k].content = d.InternalIPAddress
                  /\ calls[k].proxy = FALSE
                  /\ calls[k].err \notin {Nil, Pending} => k = Len(calls)
             /\ p.at.ph \in {"update", "done"} /\ p.err = Nil /\ calls # <<>> =>
                  Len(calls) = Len(d.InternalHostnames)

\* A pass of a service whose internal address is all that is new has
\* upserted its two internal hostnames and nothing else.
C33_Witness ==
    \E w \in Workers :
        LET p == pass[w] IN
        /\ p.mode = "process" /\ p.kind = "service" /\ p.at.ph = "done" /\ p.err = Nil
        /\ Len(p.calls) = 2 /\ InternalCalls(p) = p.calls
        /\ \A k \in 1..Len(p.calls) : p.calls[k].err = Nil

\* C34: UpsertDNSRecord fails without a POST, PUT or DELETE when the record
\* lookup reports more than one record by the name, and the records of that
\* name are then the ones the lookup found.
C34_AmbiguousUpsertRefused ==
    \A k \in 1..Len(ClientLog) :
        LET call == ClientLog[k] IN
        /\ call.op = "UpsertDNSRecord"
        /\ Lookups(call) # <<>> /\ Lookups(call)[1].count > 1
        => /\ Mutations(call) = <<>>
           /\ call.err # Pending
           /\ call.err = "more than 1 record by that name"
           /\ k = Len(ClientLog) =>
                /\ Cardinality({r \in records : r.Name = call.name}) = Lookups(call)[1].count
                /\ Lookups(call)[1].first \in records

\* An upsert of a name that holds two records has been refused.
C34_Witness ==
    /\ ClientLog # <<>>
    /\ Last(ClientLog).op = "UpsertDNSRecord"
    /\ Last(ClientLog).err = "more than 1 record by that name"
    /\ Lookups(Last(ClientLog))[1].count = 2
    /\ Cardinality({r \in records : r.Name = Last(ClientLog).name}) = 2

Puts(call) == SelectSeq(call.rests, LAMBDA rest : rest.verb = "PUT")

\* C35: UpsertDNSRecord that finds one record of the requested type sends
\* one PUT with the new content; called with proxied false the PUT carries
\* the flag cleared, called with proxied true it carries the flag as the
\* record had it, and a record the upsert creates is not proxied; in a pass
\* each successful upsert of a hostname is followed by UpdateProxySetting
\* for that hostname with the wanted flag.
C35_UpsertClearsProxyFirst ==
    \A w \in Workers : \A k \in 1..Len(pass[w].calls) :
        LET call == pass[w].calls[k]
            found == Lookups(call)[1]
            puts == Puts(call)
        IN call.op = "UpsertDNSRecord" =>
             /\ puts # <<>> =>
                  /\ Len(puts) = 1 /\ found.count = 1 /\ found.first.Type = call.type
                  /\ puts[1].arg.ID = found.first.ID
                  /\ puts[1].arg.Content = call.content
                  /\ puts[1].arg.Proxied = (call.proxy /\ found.first.Proxied)
             /\ \A j \in 1..Len(call.rests) :
                  call.rests[j].verb = "POST" => ~call.rests[j].arg.Proxied
             /\ /\ pass[w].mode = "process" /\ call.phase = "hostname" /\ call.err = Nil
                /\ k < Len(pass[w].calls)
                => /\ pass[w].calls[k + 1].op = "UpdateProxySetting"
                   /\ pass[w].calls[k + 1].name = call.name
                   /\ pass[w].calls[k + 1].proxy = call.proxy

\* A proxied record has been given new content by an upsert that asked for
\* no proxying, in a PUT that carried the flag cleared.
C35_Witness ==
    \E w \in Workers : \E k \in 1..Len(pass[w].calls) :
        LET call == pass[w].calls[k] IN
        /\ call.op = "UpsertDNSRecord" /\ ~call.proxy /\ call.err = Nil
        /\ Lookups(call) # <<>> /\ Lookups(call)[1].first.Proxied
        /\ Lookups(call)[1].first.Content # call.content
        /\ Puts(call) # <<>> /\ Puts(call)[1].ok /\ ~Puts(call)[1].arg.Proxied

\* C36: a watch loop never ends.  Each failed opening of the watch and each
\* stream error is followed by one sleep of applyJitter(30) seconds, 22 to
\* 37, and after it the watch is opened again; nothing else makes the loop
\* sleep, so a failed pass leaves it streaming; and the events that start a
\* pass are read one at a time, the next one after the pass has returned.
C36_WatchLoopGoesOn ==
    \A o \in ObjectIds :
        LET loop == watch[o]
            p == pass[Watcher(o)]
        IN /\ loop.pc \in {"connect", "streaming", "processing", "backoff"}
           /\ loop.failures = loop.sleeps + (IF loop.pc = "backoff" THEN 1 ELSE 0)
           /\ loop.pc = "connect" /\ loop.sleeps > 0 =>
                loop.sleepTime \in applyJitter(WatchBase) /\ loop.sleepTime \in 22 .. 37
           /\ loop.pc = "backoff" => ENABLED WatchSleep(o)
           /\ loop.pc = "connect" => ENABLED WatchConnect(o)
           /\ p.mode # "idle" <=> loop.pc = "processing"
           /\ loop.read = loop.completed + (IF loop.pc = "processing" THEN 1 ELSE 0)
           /\ loop.pc = "processing" /\ p.at.ph = "done" => ENABLED WatchDone(o)

\* The first pass of the service's watch loop has failed on a call, and the
\* loop, which never slept, has read the next event and runs its pass.
C36_Witness ==
    /\ watch["svc"].pc = "processing" /\ watch["svc"].completed = 1
    /\ watch["svc"].failures = 0 /\ watch["svc"].sleeps = 0
    /\ watch["ing"].failures = 0 /\ watch["ing"].read = 0
    /\ faults = 0

\* The names a reconcile pass works on: the hostnames, the internal
\* hostnames and the origin hostname of the object's desired state.
Targets(desiredState) ==
    Range(desiredState.Hostnames) \cup Range(desiredState.InternalHostnames)
        \cup {desiredState.OriginRecordHostname}

\* C37: a reconcile pass sends DELETE only in DeleteDNSRecord for the origin
\* hostname and in an UpsertDNSRecord that found one record of another type,
\* for that record.  It changes records of the names of its desired state
\* only, so the records of a hostname dropped from the list stay; for an
\* object whose enable annotation is not "true" it calls nothing; and a pass
\* that returns "skipped" has not written the state annotation.
C37_RecordsLeftBehind ==
    \A w \in Workers :
        LET p == pass[w] IN
        p.mode = "process" =>
          /\ \A k \in 1..Len(p.calls) :
                LET call == p.calls[k]
                    lookups == Lookups(call)
                    changes == Mutations(call)
                IN /\ call.name \in Targets(p.desiredState)
                   /\ \A j \in 1..Len(changes) :
                        /\ changes[j].arg.Name = call.name
                        /\ changes[j].verb = "DELETE" =>
                             /\ Len(lookups) = 1
                             /\ changes[j].arg = lookups[1].first
                             /\ \/ /\ call.op = "DeleteDNSRecord"
                                   /\ call.name = p.desiredState.OriginRecordHostname
                                \/ /\ call.op = "UpsertDNSRecord"
                                   /\ lookups[1].count = 1
                                   /\ lookups[1].first.Type # call.type
          /\ p.desiredState.Enabled # "true" =>
                /\ p.calls = <<>>
                /\ p.at.ph = "done" => p.status = "skipped"
          /\ p.at.ph = "done" /\ p.status = "skipped" =>
                /\ p.writes = 0 /\ p.updates = 0
                /\ StoredState(p.object) = StoredState(p.given)
                /\ p.object.Annotations = p.given.Annotations

\* The second hostname has been dropped from an object's list, a pass on
\* the shortened list has succeeded and stored its state, and the record of
\* the dropped hostname, created by an earlier pass, is still held.
C37_Witness ==
    \E o \in ObjectIds : \E w \in Workers :
        LET p == pass[w] IN
        /\ p.mode = "process" /\ p.obj = o /\ p.at.ph = "done" /\ p.status = "succeeded"
        /\ p.desiredState.Hostnames = <<HostA>>
        /\ StoredState(objects[o]).Hostnames = <<HostA>>
        /\ p.currentState.Hostnames = <<HostA>>
        /\ p.given.Annotations.keys # {} /\ StoredState(p.given).Hostnames = <<HostA, HostB>>
        /\ \E r \in records : r.Name = HostB

\* An upsert that found one record of another type, deleted it and was
\* refused the create.
CreateFailedAfterDelete(call) ==
    /\ call.op = "UpsertDNSRecord"
    /\ Lookups(call) # <<>> /\ Lookups(call)[1].count = 1
    /\ Lookups(call)[1].first.Type # call.type
    /\ Len(Mutations(call)) = 2
    /\ Mutations(call)[1].ok /\ ~Mutations(call)[2].ok

\* C38: UpsertDNSRecord that finds one record of another type sends DELETE
\* for it before POST.  When the DELETE succeeded and the POST fails the
\* operation ends there with an error and the name has no record; the next
\* upsert of the name that succeeds creates one.
C38_TypeChangeNotCompensated ==
    \A k \in 1..Len(ClientLog) :
        LET call == ClientLog[k]
            changes == Mutations(call)
        IN /\ /\ call.op = "UpsertDNSRecord"
              /\ Lookups(call) # <<>> /\ Lookups(call)[1].count = 1
              /\ Lookups(call)[1].first.Type # call.type
              => /\ IsPrefix(Verbs(changes), <<"DELETE", "POST">>)
                 /\ changes # <<>> => changes[1].arg = Lookups(call)[1].first
           /\ CreateFailedAfterDelete(call) =>
                /\ call.err \notin {Nil, Pending}
                /\ Last(call.rests) = changes[2]
                /\ Lookups(call)[1].first \notin records
                /\ k = Len(ClientLog) => ~\E r \in records : r.Name = call.name
                /\ /\ k + 1 = Len(ClientLog)
                   /\ ClientLog[k + 1].op = "UpsertDNSRecord"
                   /\ ClientLog[k + 1].name = call.name
                   /\ ClientLog[k + 1].err = Nil
                   => /\ Verbs(Mutations(ClientLog[k + 1])) = <<"POST">>
                      /\ \E r \in records :
                            /\ r.Name = call.name /\ r.Type = ClientLog[k + 1].type
                            /\ r.Content = ClientLog[k + 1].content
                      /\ Cardinality({r \in records : r.Name = call.name}) = 1

\* The create of a type change has failed after the delete, and a second
\* upsert of the name has created the record.
C38_Witness ==
    /\ Len(ClientLog) = 2
    /\ CreateFailedAfterDelete(ClientLog[1])
    /\ ClientLog[2].op = "UpsertDNSRecord" /\ ClientLog[2].name = ClientLog[1].name
    /\ ClientLog[2].err = Nil
    /\ \E r \in records : r.Name = ClientLog[1].name

\* The answers a call was given to its requests, in order.
RECURSIVE Answers(_)
Answers(calls) ==
    IF calls = <<>> THEN <<>>
    ELSE Answers(SubSeq(calls, 1, Len(calls) - 1)) \o
         [k \in 1..Len(Last(calls).rests) |->
            [ok |-> Last(calls).rests[k].ok, count |-> Last(calls).rests[k].count,
             first |-> Last(calls).rests[k].first]]

\* The two calls were given the same answers as far as both asked.
SameAnswers(p, q) ==
    /\ \/ IsPrefix(Answers(p.calls), Answers(q.calls))
       \/ IsPrefix(Answers(q.calls), Answers(p.calls))
    /\ p.updates > 0 /\ q.updates > 0 => (p.err = "update failed") = (q.err = "update failed")

\* C39: called with the same desired and current state, without internal
\* hostnames and with valid hostnames only, and given the same answers by
\* the provider and by the update call, makeServiceChanges and
\* makeIngressChanges make the same provider calls with the same requests,
\* write the same state annotation and return the same status and error.
C39_SameChanges ==
    LET p == twin.first
        q == pass["ingresses"]
    IN /\ p.mode = "process" /\ q.mode = "process" /\ q.at.ph = "done"
       /\ twin.desiredState.InternalHostnames = EmptyList
       /\ \A k \in 1..Len(twin.desiredState.Hostnames) :
             twin.desiredState.Hostnames = EmptyList
             \/ validateHostname(twin.desiredState.Hostnames[k])
       /\ SameAnswers(p, q)
       => /\ p.calls = q.calls
          /\ p.status = q.status /\ p.err = q.err
          /\ p.writes = q.writes /\ p.updates = q.updates
          /\ p.object.Annotations = q.object.Annotations
          /\ p.currentState = q.currentState

\* Both functions have upserted two hostnames and set their proxy flags,
\* on the same answers, and have stored the state.
C39_Witness ==
    LET p == twin.first
        q == pass["ingresses"]
    IN /\ p.mode = "process" /\ q.mode = "process" /\ q.at.ph = "done"
       /\ SameAnswers(p, q)
       /\ Len(p.calls) >= 4 /\ p.status = "succeeded" /\ q.status = "succeeded"
       /\ q.object.Annotations.state = jsonMarshal(twin.desiredState)

\* The phases carried through on an object: by the calls that have
\* returned, and by the calls still in hand.
Completed(o) ==
    completed[o] \cup UNION {Phases(pass[w]) : w \in {v \in Workers : pass[v].obj = o}}

\* C40: with the watch handlers as the only reconciler and no state
\* annotation but the ones it wrote, whenever the guard of a phase holds for
\* a stored object and the stored state equals the desired state on the
\* fields that phase compares, a call on the object has made every provider
\* call of that phase for these field values, each without error.
C40_CommitHidesNothing ==
    \A o \in ObjectIds :
        LET d == DesiredState(objects[o])
            s == StoredState(objects[o])
        IN objects[o].exists =>
             /\ Phase1Guard(d) /\ Phase1Fields(s) = Phase1Fields(d) =>
                  [phase |-> 1, fields |-> Phase1Fields(d)] \in Completed(o)
             /\ /\ objects[o].kind = "service"
                /\ Phase2Guard(d) /\ Phase2Fields(s) = Phase2Fields(d)
                => [phase |-> 2, fields |-> Phase2Fields(d)] \in Completed(o)

\* A call carried both phases of a service through and stored the state;
\* the service's address changed, and a second call carried the external
\* phase through for the new address and stored the whole state again, the
\* internal fields with it.
C40_Witness ==
    \E o \in ObjectIds :
        LET d == DesiredState(objects[o])
            s == StoredState(objects[o])
        IN /\ objects[o].exists /\ objects[o].kind = "service"
           /\ Phase1Guard(d) /\ Phase1Fields(s) = Phase1Fields(d)
           /\ Phase2Guard(d) /\ Phase2Fields(s) = Phase2Fields(d)
           /\ [phase |-> 1, fields |-> Phase1Fields(d)] \in completed[o]
           /\ [phase |-> 2, fields |-> Phase2Fields(d)] \in completed[o]
           /\ Cardinality({c \in completed[o] : c.phase = 1}) = 2
           /\ Cardinality({c \in completed[o] : c.phase = 2}) = 1
           /\ \A w \in Workers : pass[w].mode = "idle"

====
